---- MODULE Spec2Model ----
(***************************************************************************)
(* Rate limiter of offerni/rate-limiter: the per-key decision engine       *)
(* (middleware/service.go), the policy resolver, the admission adapter     *)
(* (middleware/rate_limiter.go) and the Redis storage backend              *)
(* (storage/redis.go).                                                     *)
(*                                                                         *)
(* Time is counted in ticks, TicksPerSecond ticks to the second.  Strings  *)
(* are sequences of one-character strings, so that strings.Split and the   *)
(* "token:" prefix are computed, not assumed.                              *)
(***************************************************************************)
EXTENDS Integers, Sequences, FiniteSets, TLC

\* ---------------------------------------------------------------- bounds
NumProcs == 2
MaxTime == 3
MaxCalls == 3
MaxLimit == 2
MaxBlockTime == 1
TicksPerSecond == 2

\* ------------------------------------------------------ program constants
\* time.Time{}: the zero time, for which IsZero() is true.  The clock starts
\* after it.
ZeroTime == 0
\* The fixed window length of shouldResetWindow, in seconds.
WindowSeconds == 1

Procs == 1..NumProcs
NoProc == 0

\* ---------------------------------------------------------------- strings
Colon == ":"
TokenPrefix == <<"t", "o", "k", "e", "n", Colon>>
EmptyString == <<>>

\* strings.Split(s, sep) for a one-character separator: n separators give
\* n+1 segments, empty segments included.
RECURSIVE Split(_, _)
Split(s, sep) ==
    IF \A i \in 1..Len(s) : s[i] # sep
    THEN <<s>>
    ELSE LET i == CHOOSE n \in 1..Len(s) :
                      s[n] = sep /\ \A j \in 1..(n - 1) : s[j] # sep
         IN  <<SubSeq(s, 1, i - 1)>> \o Split(SubSeq(s, i + 1, Len(s)), sep)

Digits == <<"0", "1", "2", "3", "4", "5", "6", "7", "8", "9">>
HexLetters == {"a", "b", "c", "d", "e", "f", "A", "B", "C", "D", "E", "F"}
IsDigit(c) == \E d \in 1..Len(Digits) : Digits[d] = c
IsHex(c) == IsDigit(c) \/ c \in HexLetters
DigitValue(c) == (CHOOSE d \in 1..Len(Digits) : Digits[d] = c) - 1

\* The value of a string of decimal digits.
RECURSIVE DecValue(_)
DecValue(s) ==
    IF s = EmptyString THEN 0
    ELSE 10 * DecValue(SubSeq(s, 1, Len(s) - 1)) + DigitValue(s[Len(s)])

\* Mutant of determineRateLimitKey: the API key is used without the prefix.
determineRateLimitKeyNoPrefix(clientIP, apiKey) ==
    IF apiKey # EmptyString
    THEN <<apiKey, TRUE>>
    ELSE <<clientIP, FALSE>>

\* determineRateLimitKey(clientIP, apiKey): <<key, isToken>>.
determineRateLimitKey(clientIP, apiKey) ==
    IF apiKey # EmptyString
    THEN <<TokenPrefix \o apiKey, TRUE>>
    ELSE <<clientIP, FALSE>>

\* ------------------------------------------------------------ the inputs
IP1 == <<"1">>
IP2 == <<"2">>
ClientIPs == {IP1}
TokA == <<"A">>
TokAB == <<"a", Colon, "b">>
TokenNames == {TokA, TokAB}
APIKeys == {EmptyString, TokA}

LimitVals == 0..MaxLimit
BlockVals == 0..MaxBlockTime

\* The maps a Config can hold: every partial map from token names to values.
PartialMaps(names, vals) == UNION {[d -> vals] : d \in SUBSET names}

VARIABLES
    config,      \* Service.config
    rateLimits,  \* Service.rateLimits: key -> RateLimit
    mutex,       \* Service.mutex: the goroutine holding it, or NoProc
    clock,       \* time.Now(), in ticks
    pc,          \* where each request goroutine is
    key,         \* CheckRateLimit's parameter key, per goroutine
    isToken,     \* CheckRateLimit's parameter isToken
    limit,       \* CheckRateLimit's local limit
    blockTime,   \* CheckRateLimit's local blockTime
    cnt,         \* the value of rateLimit.Count loaded by the capacity check
    ret,         \* what CheckRateLimit returned: [allowed, err]
    win,         \* history: per key, the calls completed and admitted since
                 \* its window began
    serial,      \* history: the records of the serial run of the completed calls
    obs,         \* history: what the call in progress saw, and when
    store,       \* the Redis server: key -> [data, expireAt]
    loc,         \* the external engine's working record, per goroutine
    cli,         \* how the Redis round trips of the goroutine's call ended
    resp,        \* what the handler did with w and next, per goroutine
    req,         \* the *http.Request the handler is given
    clientAddr,  \* the handler's local clientIP
    env,         \* os.Environ(): the "NAME=value" strings of the process
    loaded,      \* what LoadConfig returned: [cfg, err]
    since,       \* time.Since(t) of a time check: [sec, nsec]
    verdict      \* what the time checks answered: [reset, blocked]

reqVars == <<req, clientAddr>>
cfgVars == <<env, loaded>>
memVars == <<rateLimits, mutex, limit, blockTime, cnt, serial, reqVars, cfgVars>>
extVars == <<store, loc, cli, resp>>
timeVars == <<since, verdict>>

vars == <<config, rateLimits, mutex, clock, pc, key, isToken, limit,
          blockTime, cnt, ret, win, serial, obs, store, loc, cli, resp, req,
          clientAddr, env, loaded, since, verdict>>

\* ---------------------------------------------------------------- records
NoRecord == [Count |-> -1, LastReset |-> ZeroTime, BlockedAt |-> ZeroTime]
NoRet == [allowed |-> FALSE, err |-> "none"]
NoDuration == [sec |-> 0, nsec |-> 0]
NoVerdict == [reset |-> FALSE, blocked |-> FALSE]
NoObs == [existed |-> FALSE, before |-> NoRecord, tGet |-> ZeroTime,
          tReset |-> ZeroTime, tBlock |-> ZeroTime]
NoKey == EmptyString
NoWin == [calls |-> 0, admitted |-> 0]
NoLocal == [rl |-> NoRecord, allowed |-> FALSE]
NoTrips == [get |-> "none", set |-> "none"]
NoRequest == [xff |-> EmptyString, xri |-> EmptyString, cf |-> EmptyString,
              remoteAddr |-> EmptyString, apiKey |-> EmptyString]
NotLoaded == [cfg |-> [IPRateLimit |-> 0, IPBlockTime |-> 0, TokenLimits |-> <<>>,
                       TokenBlockTimes |-> <<>>, ServerPort |-> EmptyString],
              err |-> "none"]
NoResponse == [status |-> 0, contentType |-> "", body |-> <<>>, next |-> 0]

\* time.Time.IsZero
IsZero(t) == t = ZeroTime

\* Mutant of NewRateLimit: BlockedAt starts as time.Now(), not time.Time{}.
NewRateLimitBlocked(now) == [Count |-> 0, LastReset |-> now, BlockedAt |-> now]

\* Mutant of NewRateLimit: the new record starts with one request counted.
NewRateLimitCounted(now) == [Count |-> 1, LastReset |-> now, BlockedAt |-> ZeroTime]

\* &RateLimit{Count: 0, LastReset: time.Now(), BlockedAt: time.Time{}}
NewRateLimit(now) == [Count |-> 0, LastReset |-> now, BlockedAt |-> ZeroTime]

\* ------------------------------------------------------- policy resolver
\* Mutant of getLimit: the override is looked up whatever isToken says.
getLimitAnyKey(cfg, k, tok) ==
    LET tokenParts == Split(k, Colon)
    IN  IF Len(tokenParts) = 2 /\ tokenParts[2] \in DOMAIN cfg.TokenLimits
        THEN cfg.TokenLimits[tokenParts[2]]
        ELSE cfg.IPRateLimit

getLimit(cfg, k, tok) ==
    LET tokenParts == Split(k, Colon)
    IN  IF tok /\ Len(tokenParts) = 2 /\ tokenParts[2] \in DOMAIN cfg.TokenLimits
        THEN cfg.TokenLimits[tokenParts[2]]
        ELSE cfg.IPRateLimit

\* Mutant of getBlockTime: the override is looked up in the map of limits.
getBlockTimeFromLimits(cfg, k, tok) ==
    LET tokenParts == Split(k, Colon)
    IN  IF tok /\ Len(tokenParts) = 2 /\ tokenParts[2] \in DOMAIN cfg.TokenLimits
        THEN cfg.TokenLimits[tokenParts[2]]
        ELSE cfg.IPBlockTime

\* Mutant of getBlockTime: the key is split at its first ":" only, as by
\* strings.SplitN(key, ":", 2).
getBlockTimeSplitN(cfg, k, tok) ==
    LET tokenParts == Split(k, Colon)
        rest == SubSeq(k, Len(tokenParts[1]) + 2, Len(k))
    IN  IF tok /\ Len(tokenParts) >= 2 /\ rest \in DOMAIN cfg.TokenBlockTimes
        THEN cfg.TokenBlockTimes[rest]
        ELSE cfg.IPBlockTime

getBlockTime(cfg, k, tok) ==
    LET tokenParts == Split(k, Colon)
    IN  IF tok /\ Len(tokenParts) = 2 /\ tokenParts[2] \in DOMAIN cfg.TokenBlockTimes
        THEN cfg.TokenBlockTimes[tokenParts[2]]
        ELSE cfg.IPBlockTime

\* ------------------------------------------------------- the time checks
\* time.Since(rateLimit.BlockedAt).Seconds() < float64(blockTime)
isBlocked(rl, bt, now) ==
    IF IsZero(rl.BlockedAt)
    THEN FALSE
    ELSE now - rl.BlockedAt < bt * TicksPerSecond

\* time.Since(rateLimit.LastReset).Seconds() >= 1.0
shouldResetWindow(rl, now) ==
    now - rl.LastReset >= WindowSeconds * TicksPerSecond

\* Mutant of ResetIfDue: the reset forgets to clear Count.
ResetKeepsCount(rl, now) ==
    IF shouldResetWindow(rl, now)
    THEN [Count |-> rl.Count, LastReset |-> now, BlockedAt |-> ZeroTime]
    ELSE rl

\* Mutant of ResetIfDue: the reset forgets to clear BlockedAt.
ResetKeepsBlock(rl, now) ==
    IF shouldResetWindow(rl, now)
    THEN [Count |-> 0, LastReset |-> now, BlockedAt |-> rl.BlockedAt]
    ELSE rl

\* The body of "if s.shouldResetWindow(rateLimit) { ... }" on one record.
ResetIfDue(rl, now) ==
    IF shouldResetWindow(rl, now)
    THEN [Count |-> 0, LastReset |-> now, BlockedAt |-> ZeroTime]
    ELSE rl

\* Mutant of AtCapacity: a limit of 0 or less is taken for "no limit".
AtCapacityPositiveOnly(count, lim) == lim > 0 /\ count >= lim

\* Mutant of AtCapacity: > for >=.
AtCapacityOffByOne(count, lim) == count > lim

\* rateLimit.Count >= limit
AtCapacity(count, lim) == count >= lim

\* Mutant of CheckRateLimitSeq: the block check comes before the window
\* check.
CheckRateLimitSeqBlockFirst(recs, cfg, k, tok, tGet, tReset, tBlock, tCap) ==
    LET rl0 == IF k \in DOMAIN recs THEN recs[k] ELSE NewRateLimit(tGet)
        rl1 == ResetIfDue(rl0, tReset)
        put(rl) == [kk \in DOMAIN recs \cup {k} |-> IF kk = k THEN rl ELSE recs[kk]]
    IN  IF isBlocked(rl0, getBlockTime(cfg, k, tok), tBlock)
        THEN [recs |-> put(rl0), allowed |-> FALSE]
        ELSE IF AtCapacity(rl1.Count, getLimit(cfg, k, tok))
        THEN [recs |-> put([rl1 EXCEPT !.BlockedAt = tCap]), allowed |-> FALSE]
        ELSE [recs |-> put([rl1 EXCEPT !.Count = rl1.Count + 1]), allowed |-> TRUE]

\* One whole CheckRateLimit run alone on the records recs, its clock readings
\* being tGet (creation), tReset (window check), tBlock (block check) and
\* tCap (the block timestamp): the records it leaves and its result.
CheckRateLimitSeq(recs, cfg, k, tok, tGet, tReset, tBlock, tCap) ==
    LET rl0 == IF k \in DOMAIN recs THEN recs[k] ELSE NewRateLimit(tGet)
        rl1 == ResetIfDue(rl0, tReset)
        put(rl) == [kk \in DOMAIN recs \cup {k} |-> IF kk = k THEN rl ELSE recs[kk]]
    IN  IF isBlocked(rl1, getBlockTime(cfg, k, tok), tBlock)
        THEN [recs |-> put(rl1), allowed |-> FALSE]
        ELSE IF AtCapacity(rl1.Count, getLimit(cfg, k, tok))
        THEN [recs |-> put([rl1 EXCEPT !.BlockedAt = tCap]), allowed |-> FALSE]
        ELSE [recs |-> put([rl1 EXCEPT !.Count = rl1.Count + 1]), allowed |-> TRUE]

\* ------------------------------------------------------ the Redis storage
\* How a round trip to the Redis server can end: answered, or failed by a
\* timeout before the command reached the server.
ClientOutcomes == {"ok", "timeout"}

NoExpiry == ZeroTime
NoData == <<>>

\* The decimal text of an int, as encoding/json writes it.
RECURSIVE Itoa(_)
Itoa(n) ==
    IF n < 0 THEN <<"-">> \o Itoa(0 - n)
    ELSE IF n < 10 THEN <<Digits[n + 1]>>
    ELSE Itoa(n \div 10) \o <<Digits[(n % 10) + 1]>>

\* The int a decimal text stands for, as encoding/json reads it.
ParseInt(txt) ==
    IF txt[1] = "-" THEN 0 - DecValue(Tail(txt)) ELSE DecValue(txt)

\* Mutant of FormatTime: the layout is time.RFC3339, which has no fraction.
FormatTimeSeconds(t) == Itoa(t \div TicksPerSecond) \o <<"Z">>

\* time.Time.MarshalJSON: the instant in the layout RFC3339Nano. The text
\* is the whole seconds since the zero Time, then "." and the fraction (in
\* ticks) unless the fraction is zero, then the zone; the zero Time is "0Z".
FormatTime(t) ==
    Itoa(t \div TicksPerSecond)
        \o (IF t % TicksPerSecond = 0 THEN <<>>
            ELSE <<".">> \o Itoa(t % TicksPerSecond))
        \o <<"Z">>

\* time.Time.UnmarshalJSON: the instant of an RFC 3339 text.
ParseTime(txt) ==
    LET parts == Split(SubSeq(txt, 1, Len(txt) - 1), ".")
    IN  DecValue(parts[1]) * TicksPerSecond
            + (IF Len(parts) = 2 THEN DecValue(parts[2]) ELSE 0)

\* json.Marshal of a RateLimit: the tokens of the JSON object.
Marshal(rl) ==
    <<"{", "Count", ":", Itoa(rl.Count), ",",
      "LastReset", ":", FormatTime(rl.LastReset), ",",
      "BlockedAt", ":", FormatTime(rl.BlockedAt), "}">>

\* json.Unmarshal into a RateLimit: the value after each field's name.
Unmarshal(data) ==
    LET value(name) == data[(CHOOSE i \in 1..Len(data) : data[i] = name) + 2]
    IN  [Count |-> ParseInt(value("Count")),
         LastReset |-> ParseTime(value("LastReset")),
         BlockedAt |-> ParseTime(value("BlockedAt"))]

\* The server drops the keys whose expiration has come.
Expire(st, now) ==
    LET live == {k \in DOMAIN st : st[k].expireAt = NoExpiry \/ now < st[k].expireAt}
    IN  [k \in live |-> st[k]]

\* r.client.Get(ctx, key).Result()
ClientGet(st, k, outcome) ==
    IF outcome # "ok" THEN [data |-> NoData, err |-> outcome]
    ELSE IF k \in DOMAIN st THEN [data |-> st[k].data, err |-> "nil"]
    ELSE [data |-> NoData, err |-> "redis.Nil"]

\* r.client.Set(ctx, key, data, expiration).Err(): a zero expiration keeps
\* the key for ever; a call that fails leaves the server as it was.
ClientSet(st, k, data, expiration, now, outcome) ==
    LET entry == [data |-> data,
                  expireAt |-> IF expiration = 0 THEN NoExpiry
                               ELSE now + expiration * TicksPerSecond]
        written == [kk \in DOMAIN st \cup {k} |-> IF kk = k THEN entry ELSE st[kk]]
    IN  [store |-> IF outcome = "ok" THEN written ELSE st,
         err |-> IF outcome = "ok" THEN "nil" ELSE outcome]

\* fmt.Errorf("failed to get from Redis: %w", err)
GetError(cause) ==
    IF cause = "timeout" THEN "failed to get from Redis: timeout"
    ELSE "failed to get from Redis"

\* fmt.Errorf("failed to set in Redis: %w", err)
SetError(cause) ==
    IF cause = "timeout" THEN "failed to set in Redis: timeout"
    ELSE "failed to set in Redis"

\* Mutant of RedisGet: redis.Nil is wrapped like any other error.
RedisGetNilIsError(st, k, outcome) ==
    LET r == ClientGet(st, k, outcome)
    IN  IF r.err # "nil" THEN [rl |-> NoRecord, err |-> GetError(r.err)]
        ELSE [rl |-> Unmarshal(r.data), err |-> "nil"]

\* Mutant of RedisGet: every error of the client is taken for a missing key.
RedisGetSwallow(st, k, outcome) ==
    LET r == ClientGet(st, k, outcome)
    IN  IF r.err # "nil" THEN [rl |-> NoRecord, err |-> "nil"]
        ELSE [rl |-> Unmarshal(r.data), err |-> "nil"]

\* RedisStorage.Get: (nil, nil) for a missing key, (nil, err) for a failure.
RedisGet(st, k, outcome) ==
    LET r == ClientGet(st, k, outcome)
    IN  IF r.err = "redis.Nil" THEN [rl |-> NoRecord, err |-> "nil"]
        ELSE IF r.err # "nil" THEN [rl |-> NoRecord, err |-> GetError(r.err)]
        ELSE [rl |-> Unmarshal(r.data), err |-> "nil"]

\* Mutant of RedisSet: the record is written without an expiration.
RedisSetKeepForever(st, k, rl, expiration, now, outcome) ==
    LET r == ClientSet(st, k, Marshal(rl), 0, now, outcome)
    IN  [store |-> r.store,
         err |-> IF r.err # "nil" THEN SetError(r.err) ELSE "nil"]

\* Mutant of RedisSet: the record is written only if the key is not there.
RedisSetIfAbsent(st, k, rl, expiration, now, outcome) ==
    LET r == ClientSet(st, k, Marshal(rl), expiration, now, outcome)
    IN  [store |-> IF k \in DOMAIN st THEN st ELSE r.store,
         err |-> IF r.err # "nil" THEN SetError(r.err) ELSE "nil"]

\* RedisStorage.Set
RedisSet(st, k, rl, expiration, now, outcome) ==
    LET r == ClientSet(st, k, Marshal(rl), expiration, now, outcome)
    IN  [store |-> r.store,
         err |-> IF r.err # "nil" THEN SetError(r.err) ELSE "nil"]

\* The engine's computation between the get and the set: the record it
\* will write and its decision, from the record it got (NoRecord for nil).
ExternalCheck(got, cfg, k, tok, now) ==
    LET r == CheckRateLimitSeq(IF got = NoRecord THEN <<>> ELSE (k :> got),
                               cfg, k, tok, now, now, now, now)
    IN  [rl |-> r.recs[k], allowed |-> r.allowed]

\* ------------------------------------------------------------------ Init
Configs ==
    [IPRateLimit : LimitVals, IPBlockTime : BlockVals,
     TokenLimits : [{TokA} -> {MaxLimit}],
     TokenBlockTimes : [{TokA} -> {MaxBlockTime}]]

\* The state after construction, for a configuration among cfgs.
InitWith(cfgs) ==
    /\ config \in cfgs
    /\ rateLimits = <<>>
    /\ mutex = NoProc
    /\ clock = 1
    /\ pc = [p \in Procs |-> "idle"]
    /\ key = [p \in Procs |-> NoKey]
    /\ isToken = [p \in Procs |-> FALSE]
    /\ limit = [p \in Procs |-> 0]
    /\ blockTime = [p \in Procs |-> 0]
    /\ cnt = [p \in Procs |-> 0]
    /\ ret = [p \in Procs |-> NoRet]
    /\ win = <<>>
    /\ serial = <<>>
    /\ obs = [p \in Procs |-> NoObs]
    /\ store = <<>>
    /\ loc = [p \in Procs |-> NoLocal]
    /\ cli = [p \in Procs |-> NoTrips]
    /\ resp = [p \in Procs |-> NoResponse]
    /\ req = NoRequest
    /\ clientAddr = EmptyString
    /\ env = <<>>
    /\ loaded = NotLoaded
    /\ since = NoDuration
    /\ verdict = NoVerdict

Init == InitWith(Configs)

\* --------------------------------------------------------------- actions
InCall(p) == pc[p] \notin {"idle", "returned"}

\* Calls that have been made and have not yet returned.
Pending == Cardinality({p \in Procs : InCall(p)})

\* Calls completed in the running windows of the keys of ks.
RECURSIVE Calls(_)
Calls(ks) ==
    IF ks = {} THEN 0
    ELSE LET k == CHOOSE x \in ks : TRUE
         IN  win[k].calls + Calls(ks \ {k})

\* RateLimiter's handler, up to the call of service.CheckRateLimit.
Request(p, clientIP, apiKey) ==
    LET id == determineRateLimitKey(clientIP, apiKey)
    IN  /\ pc[p] = "idle"
        /\ Calls(DOMAIN win) + Pending < MaxCalls
        /\ pc' = [pc EXCEPT ![p] = "lock"]
        /\ key' = [key EXCEPT ![p] = id[1]]
        /\ isToken' = [isToken EXCEPT ![p] = id[2]]
        /\ UNCHANGED <<config, rateLimits, mutex, clock, limit, blockTime, cnt,
                       ret, win, serial, obs, extVars, reqVars, cfgVars,
                       timeVars>>

\* Mutant of Lock: the call does not wait for the mutex.
LockNoWait(p) ==
    /\ pc[p] = "lock"
    /\ mutex' = p
    /\ pc' = [pc EXCEPT ![p] = "get"]
    /\ UNCHANGED <<config, rateLimits, clock, key, isToken, limit, blockTime,
                   cnt, ret, win, serial, obs, extVars, reqVars, cfgVars,
                   timeVars>>

\* s.mutex.Lock()
Lock(p) ==
    /\ pc[p] = "lock"
    /\ mutex = NoProc
    /\ mutex' = p
    /\ pc' = [pc EXCEPT ![p] = "get"]
    /\ UNCHANGED <<config, rateLimits, clock, key, isToken, limit, blockTime,
                   cnt, ret, win, serial, obs, extVars, reqVars, cfgVars,
                   timeVars>>

\* Mutant of GetOrCreate: a new record is put in a new map.
GetOrCreateFresh(p) ==
    LET k == key[p]
        exists == k \in DOMAIN rateLimits
        rl == IF exists THEN rateLimits[k] ELSE NewRateLimit(clock)
    IN  /\ pc[p] = "get"
        /\ rateLimits' = IF exists THEN rateLimits ELSE (k :> rl)
        /\ win' = IF k \in DOMAIN win THEN win ELSE win @@ (k :> NoWin)
        /\ limit' = [limit EXCEPT ![p] = getLimit(config, k, isToken[p])]
        /\ blockTime' = [blockTime EXCEPT ![p] = getBlockTime(config, k, isToken[p])]
        /\ obs' = [obs EXCEPT ![p] = [NoObs EXCEPT !.existed = exists,
                                                   !.before = rl,
                                                   !.tGet = clock]]
        /\ pc' = [pc EXCEPT ![p] = "reset"]
        /\ UNCHANGED <<config, mutex, clock, key, isToken, cnt, ret, serial,
                       extVars, reqVars, cfgVars, timeVars>>

\* The map lookup, the creation of a missing record, and the policy.
GetOrCreate(p) ==
    LET k == key[p]
        exists == k \in DOMAIN rateLimits
        rl == IF exists THEN rateLimits[k] ELSE NewRateLimit(clock)
    IN  /\ pc[p] = "get"
        /\ rateLimits' = IF exists THEN rateLimits ELSE rateLimits @@ (k :> rl)
        /\ win' = IF k \in DOMAIN win THEN win ELSE win @@ (k :> NoWin)
        /\ limit' = [limit EXCEPT ![p] = getLimit(config, k, isToken[p])]
        /\ blockTime' = [blockTime EXCEPT ![p] = getBlockTime(config, k, isToken[p])]
        /\ obs' = [obs EXCEPT ![p] = [NoObs EXCEPT !.existed = exists,
                                                   !.before = rl,
                                                   !.tGet = clock]]
        /\ pc' = [pc EXCEPT ![p] = "reset"]
        /\ UNCHANGED <<config, mutex, clock, key, isToken, cnt, ret, serial,
                       extVars, reqVars, cfgVars, timeVars>>

\* Mutant of ResetWindow: an expired window resets the records of all keys.
ResetWindowAll(p) ==
    LET k == key[p]
        rl == rateLimits[k]
    IN  /\ pc[p] = "reset"
        /\ rateLimits' = IF shouldResetWindow(rl, clock)
                         THEN [kk \in DOMAIN rateLimits |->
                                  [Count |-> 0, LastReset |-> clock, BlockedAt |-> ZeroTime]]
                         ELSE rateLimits
        /\ win' = IF shouldResetWindow(rl, clock)
                  THEN [win EXCEPT ![k] = NoWin]
                  ELSE win
        /\ obs' = [obs EXCEPT ![p].tReset = clock]
        /\ pc' = [pc EXCEPT ![p] = "blocked"]
        /\ UNCHANGED <<config, mutex, clock, key, isToken, limit, blockTime,
                       cnt, ret, serial, extVars, reqVars, cfgVars, timeVars>>

\* if s.shouldResetWindow(rateLimit) { ... }
ResetWindow(p) ==
    LET k == key[p]
        rl == rateLimits[k]
    IN  /\ pc[p] = "reset"
        /\ rateLimits' = [rateLimits EXCEPT ![k] = ResetIfDue(rl, clock)]
        /\ win' = IF shouldResetWindow(rl, clock)
                  THEN [win EXCEPT ![k] = NoWin]
                  ELSE win
        /\ obs' = [obs EXCEPT ![p].tReset = clock]
        /\ pc' = [pc EXCEPT ![p] = "blocked"]
        /\ UNCHANGED <<config, mutex, clock, key, isToken, limit, blockTime,
                       cnt, ret, serial, extVars, reqVars, cfgVars, timeVars>>

\* "return allowed, nil" with the deferred s.mutex.Unlock(); tBlock is the
\* clock reading of the call's block check.
\* Mutant of Return: a denial comes with an error.
ReturnErrorWhenDenied(p, allowed, tBlock) ==
    LET k == key[p]
        s == CheckRateLimitSeq(serial, config, k, isToken[p], obs[p].tGet,
                               obs[p].tReset, tBlock, clock)
    IN  /\ ret' = [ret EXCEPT ![p] =
                      [allowed |-> allowed,
                       err |-> IF allowed THEN "nil" ELSE "rate limit exceeded"]]
        /\ mutex' = IF mutex = p THEN NoProc ELSE mutex
        /\ win' = [win EXCEPT ![k] = [calls |-> @.calls + 1,
                       admitted |-> @.admitted + (IF allowed THEN 1 ELSE 0)]]
        /\ serial' = s.recs
        /\ obs' = [obs EXCEPT ![p] = NoObs]
        /\ pc' = [pc EXCEPT ![p] = "returned"]
        /\ limit' = [limit EXCEPT ![p] = 0]
        /\ blockTime' = [blockTime EXCEPT ![p] = 0]
        /\ cnt' = [cnt EXCEPT ![p] = 0]

\* Mutant of Return: the deferred s.mutex.Unlock() is missing.
ReturnKeepsLock(p, allowed, tBlock) ==
    LET k == key[p]
        s == CheckRateLimitSeq(serial, config, k, isToken[p], obs[p].tGet,
                               obs[p].tReset, tBlock, clock)
    IN  /\ ret' = [ret EXCEPT ![p] = [allowed |-> allowed, err |-> "nil"]]
        /\ mutex' = mutex
        /\ win' = [win EXCEPT ![k] = [calls |-> @.calls + 1,
                       admitted |-> @.admitted + (IF allowed THEN 1 ELSE 0)]]
        /\ serial' = s.recs
        /\ obs' = [obs EXCEPT ![p] = NoObs]
        /\ pc' = [pc EXCEPT ![p] = "returned"]
        /\ limit' = [limit EXCEPT ![p] = 0]
        /\ blockTime' = [blockTime EXCEPT ![p] = 0]
        /\ cnt' = [cnt EXCEPT ![p] = 0]

Return(p, allowed, tBlock) ==
    LET k == key[p]
        s == CheckRateLimitSeq(serial, config, k, isToken[p], obs[p].tGet,
                               obs[p].tReset, tBlock, clock)
    IN  /\ ret' = [ret EXCEPT ![p] = [allowed |-> allowed, err |-> "nil"]]
        /\ mutex' = IF mutex = p THEN NoProc ELSE mutex
        /\ win' = [win EXCEPT ![k] = [calls |-> @.calls + 1,
                       admitted |-> @.admitted + (IF allowed THEN 1 ELSE 0)]]
        /\ serial' = s.recs
        /\ obs' = [obs EXCEPT ![p] = NoObs]
        /\ pc' = [pc EXCEPT ![p] = "returned"]
        /\ limit' = [limit EXCEPT ![p] = 0]
        /\ blockTime' = [blockTime EXCEPT ![p] = 0]
        /\ cnt' = [cnt EXCEPT ![p] = 0]

\* Mutant of BlockCheck: a denial restarts the block.
BlockCheckExtends(p) ==
    /\ pc[p] = "blocked"
    /\ IF isBlocked(rateLimits[key[p]], blockTime[p], clock)
       THEN /\ rateLimits' = [rateLimits EXCEPT ![key[p]].BlockedAt = clock]
            /\ Return(p, FALSE, clock)
       ELSE /\ pc' = [pc EXCEPT ![p] = "capacity"]
            /\ obs' = [obs EXCEPT ![p].tBlock = clock]
            /\ UNCHANGED <<rateLimits, mutex, limit, blockTime, cnt, ret, win,
                           serial>>
    /\ UNCHANGED <<config, clock, key, isToken, extVars, reqVars, cfgVars, timeVars>>

\* if s.isBlocked(rateLimit, blockTime) { return false, nil }
BlockCheck(p) ==
    /\ pc[p] = "blocked"
    /\ IF isBlocked(rateLimits[key[p]], blockTime[p], clock)
       THEN /\ rateLimits' = rateLimits
            /\ Return(p, FALSE, clock)
       ELSE /\ pc' = [pc EXCEPT ![p] = "capacity"]
            /\ obs' = [obs EXCEPT ![p].tBlock = clock]
            /\ UNCHANGED <<rateLimits, mutex, limit, blockTime, cnt, ret, win,
                           serial>>
    /\ UNCHANGED <<config, clock, key, isToken, extVars, reqVars, cfgVars, timeVars>>

\* Mutant of CapacityCheck: the mutex is released once the check has passed,
\* before the count is written.
CapacityCheckUnlocks(p) ==
    LET k == key[p]
        rl == rateLimits[k]
    IN  /\ pc[p] = "capacity"
        /\ IF AtCapacity(rl.Count, limit[p])
           THEN /\ rateLimits' = [rateLimits EXCEPT ![k].BlockedAt = clock]
                /\ Return(p, FALSE, obs[p].tBlock)
           ELSE /\ pc' = [pc EXCEPT ![p] = "incr"]
                /\ cnt' = [cnt EXCEPT ![p] = rl.Count]
                /\ mutex' = NoProc
                /\ UNCHANGED <<rateLimits, limit, blockTime, ret, win,
                               serial, obs>>
        /\ UNCHANGED <<config, clock, key, isToken, extVars, reqVars, cfgVars, timeVars>>

\* Mutant of CapacityCheck: the denial does not record BlockedAt.
CapacityCheckNoBlock(p) ==
    LET k == key[p]
        rl == rateLimits[k]
    IN  /\ pc[p] = "capacity"
        /\ IF AtCapacity(rl.Count, limit[p])
           THEN /\ rateLimits' = rateLimits
                /\ Return(p, FALSE, obs[p].tBlock)
           ELSE /\ pc' = [pc EXCEPT ![p] = "incr"]
                /\ cnt' = [cnt EXCEPT ![p] = rl.Count]
                /\ UNCHANGED <<rateLimits, mutex, limit, blockTime, ret, win,
                               serial, obs>>
        /\ UNCHANGED <<config, clock, key, isToken, extVars, reqVars, cfgVars, timeVars>>

\* if rateLimit.Count >= limit { rateLimit.BlockedAt = time.Now(); return false, nil }
CapacityCheck(p) ==
    LET k == key[p]
        rl == rateLimits[k]
    IN  /\ pc[p] = "capacity"
        /\ IF AtCapacity(rl.Count, limit[p])
           THEN /\ rateLimits' = [rateLimits EXCEPT ![k].BlockedAt = clock]
                /\ Return(p, FALSE, obs[p].tBlock)
           ELSE /\ pc' = [pc EXCEPT ![p] = "incr"]
                /\ cnt' = [cnt EXCEPT ![p] = rl.Count]
                /\ UNCHANGED <<rateLimits, mutex, limit, blockTime, ret, win,
                               serial, obs>>
        /\ UNCHANGED <<config, clock, key, isToken, extVars, reqVars, cfgVars, timeVars>>

\* Mutant of Increment: the admitted call counts twice.
IncrementByTwo(p) ==
    /\ pc[p] = "incr"
    /\ rateLimits' = [rateLimits EXCEPT ![key[p]].Count = cnt[p] + 2]
    /\ Return(p, TRUE, obs[p].tBlock)
    /\ UNCHANGED <<config, clock, key, isToken, extVars, reqVars, cfgVars, timeVars>>

\* rateLimit.Count++; return true, nil
Increment(p) ==
    /\ pc[p] = "incr"
    /\ rateLimits' = [rateLimits EXCEPT ![key[p]].Count = cnt[p] + 1]
    /\ Return(p, TRUE, obs[p].tBlock)
    /\ UNCHANGED <<config, clock, key, isToken, extVars, reqVars, cfgVars, timeVars>>

\* RateLimiter's handler after the call: 500, 429 or next.ServeHTTP.
Respond(p) ==
    /\ pc[p] = "returned"
    /\ pc' = [pc EXCEPT ![p] = "idle"]
    /\ key' = [key EXCEPT ![p] = NoKey]
    /\ isToken' = [isToken EXCEPT ![p] = FALSE]
    /\ ret' = [ret EXCEPT ![p] = NoRet]
    /\ loc' = [loc EXCEPT ![p] = NoLocal]
    /\ cli' = [cli EXCEPT ![p] = NoTrips]
    /\ obs' = [obs EXCEPT ![p] = NoObs]
    /\ UNCHANGED <<config, clock, memVars, win, store, resp, timeVars>>

\* Time passes, and the Redis server drops the keys that expire.
Tick ==
    /\ clock < MaxTime
    /\ clock' = clock + 1
    /\ store' = Expire(store, clock + 1)
    /\ UNCHANGED <<config, pc, key, isToken, ret, win, obs, memVars, loc, cli,
                   resp, timeVars>>

Next ==
    \/ \E p \in Procs, clientIP \in ClientIPs, apiKey \in APIKeys :
           Request(p, clientIP, apiKey)
    \/ \E p \in Procs : Lock(p)
    \/ \E p \in Procs : GetOrCreate(p)
    \/ \E p \in Procs : ResetWindow(p)
    \/ \E p \in Procs : BlockCheck(p)
    \/ \E p \in Procs : CapacityCheck(p)
    \/ \E p \in Procs : Increment(p)
    \/ \E p \in Procs : Respond(p)
    \/ Tick

Spec == Init /\ [][Next]_vars

\* One step of the call of goroutine p, from s.mutex.Lock() to its return.
Step(p) ==
    \/ Lock(p)
    \/ GetOrCreate(p)
    \/ ResetWindow(p)
    \/ BlockCheck(p)
    \/ CapacityCheck(p)
    \/ Increment(p)

\* The in-memory engine under fair scheduling: the Go scheduler keeps running
\* a goroutine that can run, and sync.Mutex hands the lock to a goroutine that
\* has waited (starvation mode), so no waiter is passed over for ever.
SpecFair ==
    /\ Init
    /\ [][Next]_vars
    /\ \A p \in Procs :
           /\ SF_vars(Lock(p))
           /\ WF_vars(GetOrCreate(p))
           /\ WF_vars(ResetWindow(p))
           /\ WF_vars(BlockCheck(p))
           /\ WF_vars(CapacityCheck(p))
           /\ WF_vars(Increment(p))

\* Configurations whose IP limit is 0 or negative; the token keeps a limit
\* above 0.
NonPositiveConfigs ==
    [IPRateLimit : {0 - MaxLimit, 0}, IPBlockTime : BlockVals,
     TokenLimits : [{TokA} -> {MaxLimit}],
     TokenBlockTimes : [{TokA} -> {MaxBlockTime}]]

SpecNonPositive == InitWith(NonPositiveConfigs) /\ [][Next]_vars

\* ------------------------------------------- the external-backend engine
\* RateLimiter's handler, up to the call of service.CheckRateLimit.
ExtRequest(p, clientIP, apiKey) ==
    LET id == determineRateLimitKey(clientIP, apiKey)
    IN  /\ pc[p] = "idle"
        /\ Calls(DOMAIN win) + Pending < MaxCalls
        /\ pc' = [pc EXCEPT ![p] = "rget"]
        /\ key' = [key EXCEPT ![p] = id[1]]
        /\ isToken' = [isToken EXCEPT ![p] = id[2]]
        /\ win' = IF id[1] \in DOMAIN win THEN win ELSE win @@ (id[1] :> NoWin)
        /\ UNCHANGED <<config, clock, ret, obs, memVars, extVars, reqVars, cfgVars,
            timeVars>>

\* CheckRateLimit returns (allowed, err).
ExtReturn(p, allowed, err) ==
    /\ ret' = [ret EXCEPT ![p] = [allowed |-> allowed, err |-> err]]
    /\ win' = [win EXCEPT ![key[p]] = [calls |-> @.calls + 1,
                   admitted |-> @.admitted + (IF allowed THEN 1 ELSE 0)]]
    /\ pc' = [pc EXCEPT ![p] = "returned"]

\* storage.Get, then the decision on the record it returned; a failed get
\* ends the call with (false, err).
ExtGet(p) ==
    /\ pc[p] = "rget"
    /\ \E outcome \in ClientOutcomes :
        \E g \in {RedisGet(store, key[p], outcome)} :
        \E c \in {ExternalCheck(g.rl, config, key[p], isToken[p], clock)} :
            /\ cli' = [cli EXCEPT ![p].get = outcome]
            /\ IF g.err # "nil"
               THEN /\ ExtReturn(p, FALSE, g.err)
                    /\ UNCHANGED <<loc, obs>>
               ELSE /\ loc' = [loc EXCEPT ![p] = c]
                    /\ obs' = [obs EXCEPT ![p] =
                                  [NoObs EXCEPT !.existed = g.rl # NoRecord,
                                                !.before = g.rl,
                                                !.tGet = clock]]
                    /\ pc' = [pc EXCEPT ![p] = "rset"]
                    /\ UNCHANGED <<ret, win>>
            /\ UNCHANGED <<config, clock, key, isToken, memVars, store, resp, timeVars>>

\* storage.Set of the computed record, expiring after the resolved block
\* time; a failed set ends the call with (false, err).
ExtSet(p) ==
    /\ pc[p] = "rset"
    /\ \E outcome \in ClientOutcomes :
        \E s \in {RedisSet(store, key[p], loc[p].rl,
                           getBlockTime(config, key[p], isToken[p]), clock,
                           outcome)} :
            /\ cli' = [cli EXCEPT ![p].set = outcome]
            /\ store' = s.store
            /\ IF s.err # "nil"
               THEN ExtReturn(p, FALSE, s.err)
               ELSE ExtReturn(p, loc[p].allowed, "nil")
            /\ loc' = [loc EXCEPT ![p] = NoLocal]
            /\ obs' = [obs EXCEPT ![p] = NoObs]
            /\ UNCHANGED <<config, clock, key, isToken, memVars, resp, timeVars>>

NextExternal ==
    \/ \E p \in Procs, clientIP \in ClientIPs : ExtRequest(p, clientIP, EmptyString)
    \/ \E p \in Procs : ExtGet(p)
    \/ \E p \in Procs : ExtSet(p)
    \/ \E p \in Procs : Respond(p)
    \/ Tick

SpecExternal == Init /\ [][NextExternal]_vars

\* --------------------------------------------- the store after the calls
\* The last instant at which a record written up to MaxTime can expire.
Horizon == MaxTime + MaxBlockTime * TicksPerSecond

\* Time goes on after the last calls have returned; the server drops the
\* keys whose expiration comes.
Elapse ==
    /\ clock >= MaxTime
    /\ clock < Horizon
    /\ \A p \in Procs : ~InCall(p)
    /\ clock' = clock + 1
    /\ store' = Expire(store, clock + 1)
    /\ UNCHANGED <<config, pc, key, isToken, ret, win, obs, memVars, loc, cli,
                   resp, timeVars>>

\* The external engine, with calls made up to MaxTime and time running on
\* to the horizon.
NextReclaim ==
    \/ \E p \in Procs, clientIP \in ClientIPs :
          clock <= MaxTime /\ ExtRequest(p, clientIP, EmptyString)
    \/ \E p \in Procs : ExtGet(p)
    \/ \E p \in Procs : ExtSet(p)
    \/ \E p \in Procs : Respond(p)
    \/ Tick
    \/ Elapse

\* Time passes, and a call that has begun goes on to its get and its set.
SpecReclaim ==
    /\ Init
    /\ [][NextReclaim]_vars
    /\ WF_vars(Tick)
    /\ WF_vars(Elapse)
    /\ \A p \in Procs : WF_vars(ExtGet(p)) /\ WF_vars(ExtSet(p))

\* ------------------------------------------------- the store, by itself
\* The records a caller can hand to Set.
Records ==
    [Count : 0..MaxLimit, LastReset : 1..MaxTime,
     BlockedAt : {ZeroTime} \cup 1..MaxTime]

\* storage.Set(ctx, k, rl, expiration); obs[1].tGet keeps when.
Put(k, rl, expiration) ==
    \E outcome \in ClientOutcomes :
        LET s == RedisSet(store, k, rl, expiration, clock, outcome)
        IN  /\ pc[1] = "idle"
            /\ pc' = [pc EXCEPT ![1] = "put"]
            /\ key' = [key EXCEPT ![1] = k]
            /\ blockTime' = [blockTime EXCEPT ![1] = expiration]
            /\ loc' = [loc EXCEPT ![1] = [rl |-> rl, allowed |-> FALSE]]
            /\ obs' = [obs EXCEPT ![1] = [NoObs EXCEPT !.tGet = clock]]
            /\ cli' = [cli EXCEPT ![1] = [get |-> "none", set |-> outcome]]
            /\ store' = s.store
            /\ UNCHANGED <<config, rateLimits, mutex, clock, isToken, limit, cnt,
                           ret, win, serial, resp, reqVars, cfgVars, timeVars>>

\* storage.Get(ctx, k) of the key that was set.
Fetch ==
    \E outcome \in ClientOutcomes :
        LET g == RedisGet(store, key[1], outcome)
        IN  /\ pc[1] = "put"
            /\ pc' = [pc EXCEPT ![1] = "fetched"]
            /\ obs' = [obs EXCEPT ![1].existed = g.err = "nil" /\ g.rl # NoRecord,
                                  ![1].before = g.rl]
            /\ cli' = [cli EXCEPT ![1].get = outcome]
            /\ UNCHANGED <<config, rateLimits, mutex, clock, key, isToken, limit,
                           blockTime, cnt, ret, win, serial, store, loc, resp,
                           reqVars, cfgVars, timeVars>>

\* The caller is done with the record; the key is set again from scratch.
Drop ==
    /\ pc[1] = "fetched"
    /\ pc' = [pc EXCEPT ![1] = "idle"]
    /\ key' = [key EXCEPT ![1] = NoKey]
    /\ blockTime' = [blockTime EXCEPT ![1] = 0]
    /\ loc' = [loc EXCEPT ![1] = NoLocal]
    /\ obs' = [obs EXCEPT ![1] = NoObs]
    /\ cli' = [cli EXCEPT ![1] = NoTrips]
    /\ store' = <<>>
    /\ UNCHANGED <<config, rateLimits, mutex, clock, isToken, limit, cnt,
                   ret, win, serial, resp, reqVars, cfgVars, timeVars>>

NextStore ==
    \/ \E k \in ClientIPs, rl \in Records, expiration \in BlockVals :
          Put(k, rl, expiration)
    \/ Fetch
    \/ Drop
    \/ Tick

SpecStore == Init /\ [][NextStore]_vars

\* ------------------------------------------------ the request's identity
\* strings.TrimSpace
RECURSIVE TrimSpace(_)
TrimSpace(s) ==
    IF s = EmptyString THEN s
    ELSE IF s[1] = " " THEN TrimSpace(Tail(s))
    ELSE IF s[Len(s)] = " " THEN TrimSpace(SubSeq(s, 1, Len(s) - 1))
    ELSE s

\* One field of a dotted IPv4 address: 1 to 3 digits, no leading zero,
\* at most 255.
IsIPv4Field(f) ==
    /\ Len(f) \in 1..3
    /\ \A i \in 1..Len(f) : IsDigit(f[i])
    /\ Len(f) > 1 => f[1] # "0"
    /\ DecValue(f) <= 255

IsIPv4(s) ==
    LET fields == Split(s, ".")
    IN  Len(fields) = 4 /\ \A i \in 1..4 : IsIPv4Field(fields[i])

\* One group of an IPv6 address: 1 to 4 hex digits.
IsIPv6Group(g) == Len(g) \in 1..4 /\ \A i \in 1..Len(g) : IsHex(g[i])

\* An IPv6 address of hex groups: eight groups, or fewer with one "::".
IsIPv6(s) ==
    LET groups == Split(s, Colon)
        n == Len(groups)
        empty == {i \in 1..n : groups[i] = EmptyString}
        inner == {i \in empty : 1 < i /\ i < n}
        full == {i \in 1..n : groups[i] # EmptyString}
    IN  /\ n >= 3
        /\ \A i \in full : IsIPv6Group(groups[i])
        /\ \/ empty = {} /\ n = 8
           \/ /\ Cardinality(inner) = 1
              /\ 1 \in empty => 2 \in empty
              /\ n \in empty => (n - 1) \in empty
              /\ Cardinality(full) <= 7
           \/ /\ n = 3 /\ empty = {1, 2, 3}

\* isValidIP(ip): net.ParseIP(ip) != nil
isValidIP(ip) == IsIPv4(ip) \/ IsIPv6(ip)

\* The positions of sep in s.
Indexes(s, sep) == {i \in 1..Len(s) : s[i] = sep}
LastIndex(s, sep) ==
    IF Indexes(s, sep) = {} THEN 0
    ELSE CHOOSE i \in Indexes(s, sep) : \A j \in Indexes(s, sep) : j <= i

\* net.SplitHostPort(hostport): [host, err]; the port is not looked at.
SplitHostPort(hostport) ==
    LET i == LastIndex(hostport, Colon)
        end == IF Indexes(hostport, "]") = {} THEN 0
               ELSE CHOOSE e \in Indexes(hostport, "]") :
                        \A j \in Indexes(hostport, "]") : e <= j
        bad == [host |-> EmptyString, err |-> "address"]
    IN  IF i = 0 THEN bad
        ELSE IF hostport[1] = "["
        THEN IF end = 0 \/ end + 1 # i THEN bad
             ELSE LET host == SubSeq(hostport, 2, end - 1)
                  IN  IF Indexes(host, "[") # {} \/ Indexes(host, "]") # {}
                      THEN bad
                      ELSE [host |-> host, err |-> "nil"]
        ELSE LET host == SubSeq(hostport, 1, i - 1)
             IN  IF Indexes(host, Colon) # {} \/ Indexes(hostport, "[") # {}
                    \/ Indexes(hostport, "]") # {}
                 THEN bad
                 ELSE [host |-> host, err |-> "nil"]

\* The fall-back of getClientIP: the host of r.RemoteAddr.
remoteHost(r) ==
    LET hp == SplitHostPort(r.remoteAddr)
    IN  IF hp.err # "nil" THEN r.remoteAddr ELSE hp.host

\* Mutant of getClientIP: X-Real-IP is looked at before X-Forwarded-For.
getClientIPRealFirst(r) ==
    LET first == TrimSpace(Split(r.xff, ",")[1])
    IN  IF r.xri # EmptyString /\ isValidIP(r.xri) THEN r.xri
        ELSE IF r.xff # EmptyString /\ isValidIP(first) THEN first
        ELSE IF r.cf # EmptyString /\ isValidIP(r.cf) THEN r.cf
        ELSE remoteHost(r)

\* getClientIP(r)
getClientIP(r) ==
    LET first == TrimSpace(Split(r.xff, ",")[1])
    IN  IF r.xff # EmptyString /\ isValidIP(first) THEN first
        ELSE IF r.xri # EmptyString /\ isValidIP(r.xri) THEN r.xri
        ELSE IF r.cf # EmptyString /\ isValidIP(r.cf) THEN r.cf
        ELSE remoteHost(r)

\* getAPIKey(r): r.Header.Get("API_KEY")
getAPIKey(r) == r.apiKey

\* The header values and remote addresses requests are made with.
XFFValues ==
    {EmptyString,
     <<"1", ".", "1", ".", "1", ".", "1">>,
     <<" ", "1", ".", "1", ".", "1", ".", "1", " ", ",", " ", "x">>,
     <<"x", ",", "1", ".", "1", ".", "1", ".", "1">>,
     <<"1", ".", "1", ".", "1">>}
XRIValues ==
    {EmptyString,
     <<"2", ".", "2", ".", "2", ".", "2">>,
     <<" ", "2", ".", "2", ".", "2", ".", "2">>,
     <<"2", "5", "6", ".", "2", ".", "2", ".", "2">>}
CFValues ==
    {EmptyString,
     <<"3", ".", "3", ".", "3", ".", "3">>,
     <<":", ":", "g">>}
RemoteAddrs ==
    {<<"4", ".", "4", ".", "4", ".", "4", ":", "8", "0">>,
     <<"4", ".", "4", ".", "4", ".", "4">>,
     <<"[", ":", ":", "1", "]", ":", "8", "0">>,
     <<":", ":", "1">>}
Requests ==
    [xff : XFFValues, xri : XRIValues, cf : CFValues, remoteAddr : RemoteAddrs,
     apiKey : APIKeys]

\* clientIP := getClientIP(r); apiKey := getAPIKey(r);
\* key, isToken := determineRateLimitKey(clientIP, apiKey)
Identify(r) ==
    LET id == determineRateLimitKey(getClientIP(r), getAPIKey(r))
    IN  /\ pc[1] = "idle"
        /\ pc' = [pc EXCEPT ![1] = "identified"]
        /\ req' = r
        /\ clientAddr' = getClientIP(r)
        /\ key' = [key EXCEPT ![1] = id[1]]
        /\ isToken' = [isToken EXCEPT ![1] = id[2]]
        /\ UNCHANGED <<config, rateLimits, mutex, clock, limit, blockTime, cnt,
                       ret, win, serial, obs, extVars, cfgVars, timeVars>>

\* The request is done with; the next one can come.
Dismiss ==
    /\ pc[1] = "identified"
    /\ pc' = [pc EXCEPT ![1] = "idle"]
    /\ req' = NoRequest
    /\ clientAddr' = EmptyString
    /\ key' = [key EXCEPT ![1] = NoKey]
    /\ isToken' = [isToken EXCEPT ![1] = FALSE]
    /\ UNCHANGED <<config, rateLimits, mutex, clock, limit, blockTime, cnt,
                   ret, win, serial, obs, extVars, cfgVars, timeVars>>

NextRequest ==
    \/ \E r \in Requests : Identify(r)
    \/ Dismiss

SpecRequest == Init /\ [][NextRequest]_vars

\* ------------------------------------------------------------ LoadConfig
DefaultIPRateLimit == 10
DefaultIPBlockTime == 300
DefaultServerPort == <<"8", "0", "8", "0">>
MaxInt == <<"9", "2", "2", "3", "3", "7", "2", "0", "3", "6", "8", "5", "4", "7", "7", "5", "8", "0", "7">>

EnvIPRateLimit == <<"I", "P", "_", "R", "A", "T", "E", "_", "L", "I", "M", "I", "T">>
EnvIPBlockTime == <<"I", "P", "_", "B", "L", "O", "C", "K", "_", "T", "I", "M", "E">>
EnvServerPort == <<"S", "E", "R", "V", "E", "R", "_", "P", "O", "R", "T">>
TokenEnvPrefix == <<"T", "O", "K", "E", "N", "_">>
LimitSuffix == <<"_", "L", "I", "M", "I", "T">>
BlockTimeSuffix == <<"_", "B", "L", "O", "C", "K", "_", "T", "I", "M", "E">>

\* strings.HasPrefix, HasSuffix, TrimPrefix, TrimSuffix
HasPrefix(s, prefix) ==
    Len(s) >= Len(prefix) /\ SubSeq(s, 1, Len(prefix)) = prefix
HasSuffix(s, suffix) ==
    Len(s) >= Len(suffix) /\ SubSeq(s, Len(s) - Len(suffix) + 1, Len(s)) = suffix
TrimPrefix(s, prefix) ==
    IF HasPrefix(s, prefix) THEN SubSeq(s, Len(prefix) + 1, Len(s)) ELSE s
TrimSuffix(s, suffix) ==
    IF HasSuffix(s, suffix) THEN SubSeq(s, 1, Len(s) - Len(suffix)) ELSE s

\* strings.SplitN(s, "=", 2)
SplitN2(s) ==
    LET parts == Split(s, "=")
    IN  IF Len(parts) = 1 THEN parts
        ELSE <<parts[1], SubSeq(s, Len(parts[1]) + 2, Len(s))>>

\* os.Getenv(name): the value of the variable, "" when it is not set.
Getenv(e, name) ==
    LET hits == {i \in 1..Len(e) : Len(SplitN2(e[i])) = 2 /\ SplitN2(e[i])[1] = name}
    IN  IF hits = {} THEN EmptyString
        ELSE SplitN2(e[CHOOSE i \in hits : \A j \in hits : i <= j])[2]

\* The digits d are a number above MaxInt.
RECURSIVE DigitsAbove(_, _)
DigitsAbove(d, m) ==
    IF d = EmptyString THEN FALSE
    ELSE IF DigitValue(d[1]) # DigitValue(m[1]) THEN DigitValue(d[1]) > DigitValue(m[1])
    ELSE DigitsAbove(Tail(d), Tail(m))

RECURSIVE TrimZeros(_)
TrimZeros(d) == IF Len(d) > 1 /\ d[1] = "0" THEN TrimZeros(Tail(d)) ELSE d

\* strconv.Atoi(s): [val, err]. A sign, then decimal digits only, the value
\* within the range of int.
Atoi(s) ==
    LET signed == s # EmptyString /\ s[1] \in {"+", "-"}
        d == IF signed THEN Tail(s) ELSE s
        z == TrimZeros(d)
        bad == [val |-> 0, err |-> "strconv.Atoi"]
    IN  IF d = EmptyString \/ \E i \in 1..Len(d) : ~IsDigit(d[i]) THEN bad
        ELSE IF Len(z) > Len(MaxInt) \/ (Len(z) = Len(MaxInt) /\ DigitsAbove(z, MaxInt))
        THEN bad
        ELSE [val |-> IF signed /\ s[1] = "-" THEN 0 - DecValue(d) ELSE DecValue(d),
              err |-> "nil"]

\* The value of an integer variable, or the default when it is not set or
\* Atoi fails.
IntOrDefault(e, name, default) ==
    LET val == Getenv(e, name)
    IN  IF val # EmptyString /\ Atoi(val).err = "nil" THEN Atoi(val).val ELSE default

\* Mutant of TokenEntries: a value Atoi rejects is kept, as 0.
TokenEntriesKeepBad(e, suffix) ==
    {i \in 1..Len(e) :
        /\ Len(SplitN2(e[i])) = 2
        /\ HasPrefix(SplitN2(e[i])[1], TokenEnvPrefix)
        /\ HasSuffix(SplitN2(e[i])[1], suffix)}

\* The entries of os.Environ() that set the override named by the suffix:
\* TOKEN_<name><suffix> with a value Atoi accepts.
TokenEntries(e, suffix) ==
    {i \in 1..Len(e) :
        /\ Len(SplitN2(e[i])) = 2
        /\ HasPrefix(SplitN2(e[i])[1], TokenEnvPrefix)
        /\ HasSuffix(SplitN2(e[i])[1], suffix)
        /\ Atoi(SplitN2(e[i])[2]).err = "nil"}

TokenNameOf(entry, suffix) ==
    TrimSuffix(TrimPrefix(SplitN2(entry)[1], TokenEnvPrefix), suffix)

\* The map the loop over os.Environ() builds; a later entry for the same
\* name replaces an earlier one.
TokenMap(e, suffix) ==
    LET hits == TokenEntries(e, suffix)
        names == {TokenNameOf(e[i], suffix) : i \in hits}
        last(n) == CHOOSE i \in hits :
                       /\ TokenNameOf(e[i], suffix) = n
                       /\ \A j \in hits : TokenNameOf(e[j], suffix) = n => j <= i
    IN  [n \in names |-> Atoi(SplitN2(e[last(n)])[2]).val]

\* LoadConfig(): [cfg, err]
LoadConfig(e) ==
    [cfg |-> [IPRateLimit |-> IntOrDefault(e, EnvIPRateLimit, DefaultIPRateLimit),
              IPBlockTime |-> IntOrDefault(e, EnvIPBlockTime, DefaultIPBlockTime),
              TokenLimits |-> TokenMap(e, LimitSuffix),
              TokenBlockTimes |-> TokenMap(e, BlockTimeSuffix),
              ServerPort |-> IF Getenv(e, EnvServerPort) = EmptyString
                             THEN DefaultServerPort
                             ELSE Getenv(e, EnvServerPort)],
     err |-> "nil"]

\* The values the variables of the environment are given.
IntTexts == {EmptyString, <<"7">>, <<"-", "1">>, <<"1", "x">>, <<"9", "2", "2", "3", "3", "7", "2", "0", "3", "6", "8", "5", "4", "7", "7", "5", "8", "0", "8">>}
PortTexts == {EmptyString, <<"9", "0", "9", "0">>}
Unset == <<"unset">>

\* "NAME=value", or nothing for a variable that is not set.
EnvEntry(name, value) ==
    IF value = Unset THEN <<>> ELSE <<name \o <<"=">> \o value>>

Environments ==
    {EnvEntry(EnvIPRateLimit, a) \o EnvEntry(EnvIPBlockTime, b)
       \o EnvEntry(EnvServerPort, c)
       \o EnvEntry(TokenEnvPrefix \o TokA \o LimitSuffix, d)
       \o EnvEntry(TokenEnvPrefix \o TokA \o BlockTimeSuffix, f) :
        a \in IntTexts \cup {Unset}, b \in {EmptyString, <<"7">>, <<"1", "x">>, Unset},
        c \in PortTexts \cup {Unset},
        d \in IntTexts \cup {Unset}, f \in {<<"7">>, <<"1", "x">>, Unset}}

\* main: config, err := middleware.LoadConfig()
Load(e) ==
    /\ pc[1] = "idle"
    /\ pc' = [pc EXCEPT ![1] = "loaded"]
    /\ env' = e
    /\ loaded' = LoadConfig(e)
    /\ UNCHANGED <<config, rateLimits, mutex, clock, key, isToken, limit,
                   blockTime, cnt, ret, win, serial, obs, extVars, reqVars,
                   timeVars>>

\* The process ends; another starts in another environment.
Exit ==
    /\ pc[1] = "loaded"
    /\ pc' = [pc EXCEPT ![1] = "idle"]
    /\ env' = <<>>
    /\ loaded' = NotLoaded
    /\ UNCHANGED <<config, rateLimits, mutex, clock, key, isToken, limit,
                   blockTime, cnt, ret, win, serial, obs, extVars, reqVars,
                   timeVars>>

NextConfig ==
    \/ \E e \in Environments : Load(e)
    \/ Exit

SpecConfig == Init /\ [][NextConfig]_vars

\* ------------------------------------------------ the admission adapter
StatusInternalServerError == 500
StatusTooManyRequests == 429
RateLimitMessage ==
    "you have reached the maximum number of requests or actions allowed within a certain time frame"

\* json.NewEncoder(w).Encode(ErrorResponse{Error: msg}): the tokens written.
EncodeErrorResponse(msg) == <<"{", "error", ":", msg, "}", "\n">>

\* http.Error(w, "Internal server error", http.StatusInternalServerError)
httpError(msg, code) ==
    [status |-> code, contentType |-> "text/plain; charset=utf-8",
     body |-> <<msg, "\n">>, next |-> 0]

\* sendRateLimitError(w)
sendRateLimitError ==
    [status |-> StatusTooManyRequests, contentType |-> "application/json",
     body |-> EncodeErrorResponse(RateLimitMessage), next |-> 0]

\* Mutant of Response: a denied request is answered 429 and passed on as well.
ResponseDeniedPasses(allowed, err) ==
    IF err # "nil" THEN httpError("Internal server error", StatusInternalServerError)
    ELSE IF ~allowed THEN [sendRateLimitError EXCEPT !.next = 1]
    ELSE [NoResponse EXCEPT !.next = 1]

\* Mutant of Response: allowed is tested before err.
ResponseAllowedFirst(allowed, err) ==
    IF ~allowed THEN sendRateLimitError
    ELSE IF err # "nil"
    THEN httpError("Internal server error", StatusInternalServerError)
    ELSE [NoResponse EXCEPT !.next = 1]

\* The handler after "allowed, err := service.CheckRateLimit(key, isToken)":
\* what it writes to w and how many times it calls next.ServeHTTP.
Response(allowed, err) ==
    IF err # "nil" THEN httpError("Internal server error", StatusInternalServerError)
    ELSE IF ~allowed THEN sendRateLimitError
    ELSE [NoResponse EXCEPT !.next = 1]

\* The results CheckRateLimit's type (bool, error) lets it return.
CheckErrors == {"nil", GetError("timeout"), SetError("timeout")}

\* service.CheckRateLimit returns (allowed, err) to the handler.
Called(p, allowed, err) ==
    /\ pc[p] \in {"idle", "served"}
    /\ pc' = [pc EXCEPT ![p] = "returned"]
    /\ ret' = [ret EXCEPT ![p] = [allowed |-> allowed, err |-> err]]
    /\ resp' = [resp EXCEPT ![p] = NoResponse]
    /\ UNCHANGED <<config, clock, key, isToken, win, obs, memVars, store, loc, cli,
            timeVars>>

\* The rest of the handler.
Serve(p) ==
    /\ pc[p] = "returned"
    /\ pc' = [pc EXCEPT ![p] = "served"]
    /\ resp' = [resp EXCEPT ![p] = Response(ret[p].allowed, ret[p].err)]
    /\ UNCHANGED <<config, clock, key, isToken, ret, win, obs, memVars, store,
                   loc, cli, timeVars>>

NextAdapter ==
    \/ \E p \in Procs, allowed \in BOOLEAN, err \in CheckErrors : Called(p, allowed, err)
    \/ \E p \in Procs : Serve(p)

SpecAdapter == Init /\ [][NextAdapter]_vars

\* ------------------------------------ the handler on the in-memory engine
\* The rest of the handler once the in-memory CheckRateLimit has returned:
\* the response is written (or the request passed on) and the request ends.
Answer(p) ==
    /\ pc[p] = "returned"
    /\ resp' = [resp EXCEPT ![p] = Response(ret[p].allowed, ret[p].err)]
    /\ pc' = [pc EXCEPT ![p] = "idle"]
    /\ key' = [key EXCEPT ![p] = NoKey]
    /\ isToken' = [isToken EXCEPT ![p] = FALSE]
    /\ ret' = [ret EXCEPT ![p] = NoRet]
    /\ loc' = [loc EXCEPT ![p] = NoLocal]
    /\ cli' = [cli EXCEPT ![p] = NoTrips]
    /\ obs' = [obs EXCEPT ![p] = NoObs]
    /\ UNCHANGED <<config, clock, memVars, win, store, timeVars>>

\* Requests served by the middleware over the in-memory engine.
NextServed ==
    \/ \E p \in Procs, clientIP \in ClientIPs, apiKey \in APIKeys :
           Request(p, clientIP, apiKey)
    \/ \E p \in Procs : Step(p)
    \/ \E p \in Procs : Answer(p)
    \/ Tick

SpecServed == Init /\ [][NextServed]_vars

\* ------------------------------------------------- the policy resolver
TokB == <<"B">>
PolicyKeys == {IP1, TokenPrefix \o TokA, TokenPrefix \o TokB, TokenPrefix \o TokAB}

PolicyConfigs ==
    [IPRateLimit : LimitVals, IPBlockTime : BlockVals,
     TokenLimits : PartialMaps(TokenNames, LimitVals),
     TokenBlockTimes : PartialMaps(TokenNames, BlockVals)]

InitPolicy == InitWith(PolicyConfigs)

\* limit := s.getLimit(key, isToken); blockTime := s.getBlockTime(key, isToken)
Resolve(k, tok) ==
    /\ pc[1] = "idle"
    /\ pc' = [pc EXCEPT ![1] = "resolved"]
    /\ key' = [key EXCEPT ![1] = k]
    /\ isToken' = [isToken EXCEPT ![1] = tok]
    /\ limit' = [limit EXCEPT ![1] = getLimit(config, k, tok)]
    /\ blockTime' = [blockTime EXCEPT ![1] = getBlockTime(config, k, tok)]
    /\ UNCHANGED <<config, rateLimits, mutex, clock, cnt, ret, win, serial,
                   obs, extVars, reqVars, cfgVars, timeVars>>

\* The resolved values are dropped; the next resolution can start.
Forget ==
    /\ pc[1] = "resolved"
    /\ pc' = [pc EXCEPT ![1] = "idle"]
    /\ key' = [key EXCEPT ![1] = NoKey]
    /\ isToken' = [isToken EXCEPT ![1] = FALSE]
    /\ limit' = [limit EXCEPT ![1] = 0]
    /\ blockTime' = [blockTime EXCEPT ![1] = 0]
    /\ UNCHANGED <<config, rateLimits, mutex, clock, cnt, ret, win, serial,
                   obs, extVars, reqVars, cfgVars, timeVars>>

NextPolicy ==
    \/ \E k \in PolicyKeys, tok \in BOOLEAN : Resolve(k, tok)
    \/ Forget

SpecPolicy == InitPolicy /\ [][NextPolicy]_vars

\* ------------------------------------------- the time checks, in float64
\* time.Second: a time.Duration counts nanoseconds.
Second == 1000000000

\* The bits of a float64's significand.
MantissaBits == 53

\* A time.Duration of sec seconds and nsec nanoseconds, 0 <= nsec < Second.
Dur(sec, nsec) == [sec |-> sec, nsec |-> nsec]

\* The duration back nanoseconds short of sec whole seconds, or -back past.
Around(sec, back) ==
    IF back > 0 THEN Dur(sec - 1, Second - back) ELSE Dur(sec, -back)

RECURSIVE Log2(_)
Log2(n) == IF n <= 1 THEN 0 ELSE 1 + Log2(n \div 2)

\* float64(sec) + float64(nsec)/1e9 is rounded to the nearest float64, whose
\* neighbours from 2^e up to 2^(e+1) lie 2^(e+1-MantissaBits) apart: the sum
\* rounds up to sec + 1 when the nanoseconds missing to it are at most half
\* of that, that is at most Second / 2^(MantissaBits - e) of them (a
\* quotient that is 0 from the 30th power on, since Second < 2^30).
RoundUpNanos(sec) ==
    LET shift == MantissaBits - Log2(sec)
    IN  IF shift >= 30 THEN 0 ELSE Second \div (2 ^ shift)

\* Duration.Seconds(): float64(d / Second) + float64(d % Second)/1e9. The
\* float64 is kept as whole seconds and nanoseconds; a sum that does not
\* round to a whole number keeps its place between the whole numbers.
Seconds(d) ==
    IF Second - d.nsec <= RoundUpNanos(d.sec) THEN Dur(d.sec + 1, 0) ELSE d

\* float64(n), exact for an int of this range.
Float64(n) == Dur(n, 0)

\* a < b on float64.
Less(a, b) == a.sec < b.sec \/ (a.sec = b.sec /\ a.nsec < b.nsec)

\* time.Since(rateLimit.BlockedAt).Seconds() < float64(blockTime)
isBlockedSince(d, bt) == Less(Seconds(d), Float64(bt))

\* time.Since(rateLimit.LastReset).Seconds() >= 1.0
shouldResetWindowSince(d) == ~Less(Seconds(d), Float64(WindowSeconds))

\* How many nanoseconds around a boundary the checks are asked about.
MaxBack == 2

\* Block durations: none, a second, the default, and some of months.
BlockTimes ==
    {0, 1, DefaultIPBlockTime, 2 ^ 24, 2 ^ 24 + 1, 2 ^ 25 + 2}

\* Elapsed times at, just below and just above the boundaries.
Durations ==
    {Around(sec, back) :
        sec \in {WindowSeconds} \cup (BlockTimes \ {0}), back \in -MaxBack..MaxBack}

\* A record's window start and block start are both d old when a call
\* evaluates shouldResetWindow and isBlocked with block duration bt.
Measure(d, bt) ==
    /\ pc[1] = "idle"
    /\ pc' = [pc EXCEPT ![1] = "measured"]
    /\ since' = d
    /\ blockTime' = [blockTime EXCEPT ![1] = bt]
    /\ verdict' = [reset |-> shouldResetWindowSince(d),
                   blocked |-> isBlockedSince(d, bt)]
    /\ UNCHANGED <<config, rateLimits, mutex, clock, key, isToken, limit, cnt,
                   ret, win, serial, obs, extVars, reqVars, cfgVars>>

\* The answers are dropped.
Discard ==
    /\ pc[1] = "measured"
    /\ pc' = [pc EXCEPT ![1] = "idle"]
    /\ since' = NoDuration
    /\ blockTime' = [blockTime EXCEPT ![1] = 0]
    /\ verdict' = NoVerdict
    /\ UNCHANGED <<config, rateLimits, mutex, clock, key, isToken, limit, cnt,
                   ret, win, serial, obs, extVars, reqVars, cfgVars>>

NextBoundary ==
    \/ \E d \in Durations, bt \in BlockTimes : Measure(d, bt)
    \/ Discard

SpecBoundary == Init /\ [][NextBoundary]_vars

\* ----------------------------------------------- two engines side by side
\* The configuration cfg with every block duration replaced by bt.
WithBlockTime(cfg, bt) ==
    [cfg EXCEPT !.IPBlockTime = bt,
                !.TokenBlockTimes = [t \in DOMAIN cfg.TokenBlockTimes |-> bt]]

\* The same request is given to two services at the same time: goroutine 1
\* calls CheckRateLimit on the service with config, whose records are
\* rateLimits, and goroutine 2 on a service whose block durations are bt and
\* whose records are serial. The window check is made a ticks into the call
\* and the block and capacity checks b ticks later.
TwinCall(clientIP, apiKey, a, b, bt) ==
    LET id == determineRateLimitKey(clientIP, apiKey)
        k == id[1]
        tok == id[2]
        twin == WithBlockTime(config, bt)
        tReset == clock + a
        tBlock == tReset + b
        r1 == CheckRateLimitSeq(rateLimits, config, k, tok, clock, tReset, tBlock, tBlock)
        r2 == CheckRateLimitSeq(serial, twin, k, tok, clock, tReset, tBlock, tBlock)
    IN  /\ \A p \in Procs : pc[p] = "idle"
        /\ tBlock <= MaxTime
        /\ pc' = [p \in Procs |-> "returned"]
        /\ key' = [p \in Procs |-> k]
        /\ isToken' = [p \in Procs |-> tok]
        /\ limit' = [p \in Procs |-> getLimit(config, k, tok)]
        /\ blockTime' = [p \in Procs |->
                            IF p = 1 THEN getBlockTime(config, k, tok)
                            ELSE getBlockTime(twin, k, tok)]
        /\ ret' = [p \in Procs |->
                      [allowed |-> IF p = 1 THEN r1.allowed ELSE r2.allowed,
                       err |-> "nil"]]
        /\ rateLimits' = r1.recs
        /\ serial' = r2.recs
        /\ clock' = tBlock
        /\ UNCHANGED <<config, mutex, cnt, win, obs, extVars, reqVars, cfgVars,
                       timeVars>>

\* Both handlers have answered.
TwinDone ==
    /\ \A p \in Procs : pc[p] = "returned"
    /\ pc' = [p \in Procs |-> "idle"]
    /\ key' = [p \in Procs |-> NoKey]
    /\ isToken' = [p \in Procs |-> FALSE]
    /\ limit' = [p \in Procs |-> 0]
    /\ blockTime' = [p \in Procs |-> 0]
    /\ ret' = [p \in Procs |-> NoRet]
    /\ UNCHANGED <<config, rateLimits, mutex, clock, cnt, win, serial, obs,
                   extVars, reqVars, cfgVars, timeVars>>

NextTwin ==
    \/ \E clientIP \in ClientIPs, apiKey \in APIKeys, a \in 0..1, b \in 0..1,
          bt \in BlockVals : TwinCall(clientIP, apiKey, a, b, bt)
    \/ TwinDone
    \/ Tick

SpecTwin == Init /\ [][NextTwin]_vars

\* ================================================================ claims
\* The call of goroutine p returns in this step.
Returns(p) == InCall(p) /\ pc'[p] = "returned"

\* The goroutine is between s.mutex.Lock() and the deferred Unlock().
InBody(p) == pc[p] \in {"get", "reset", "blocked", "capacity", "incr"}

\* The identity the adapter gives a key: token keys carry the "token:" prefix.
KeyIsToken(k) == \E a \in APIKeys \ {EmptyString} : k = TokenPrefix \o a
KeyLimit(k) == getLimit(config, k, KeyIsToken(k))
KeyBlockTime(k) == getBlockTime(config, k, KeyIsToken(k))

\* The window check of the call in progress found the window expired.
DidReset(p) == shouldResetWindow(obs[p].before, obs[p].tReset)

\* C1: in every window of every key (the one its first call opens included),
\* the n-th call returns allowed=true exactly when n <= limit: the first
\* `limit` calls are admitted and the (limit+1)-th is denied.
C1_LimitPerWindow ==
    [][\A p \in Procs : Returns(p) =>
          (ret'[p].allowed <=> win'[key[p]].calls <= limit[p])]_vars

\* A window opened by the key's first call (at the initial clock), with limit >= 1,
\* in which `limit` calls were admitted and the (limit+1)-th has just been denied.
C1_Witness ==
    \E p \in Procs :
        /\ pc[p] = "returned" /\ ~ret[p].allowed
        /\ KeyLimit(key[p]) >= 1
        /\ win[key[p]] = [calls |-> KeyLimit(key[p]) + 1, admitted |-> KeyLimit(key[p])]
        /\ rateLimits[key[p]].LastReset = 1

\* C2 as stated: the first call for a key with no record returns (true, nil)
\* and leaves count=1, windowStart a clock reading of that call, blockedAt absent.
C2_FirstCallAdmitted ==
    [][\A p \in Procs : (Returns(p) /\ ~obs[p].existed) =>
          /\ ret'[p] = [allowed |-> TRUE, err |-> "nil"]
          /\ rateLimits'[key[p]].Count = 1
          /\ rateLimits'[key[p]].LastReset \in obs[p].tGet..clock
          /\ IsZero(rateLimits'[key[p]].BlockedAt)]_vars

\* C2 amended: the same, for a key whose resolved limit is at least 1.
C2_FirstCallAdmittedPositiveLimit ==
    [][\A p \in Procs : (Returns(p) /\ ~obs[p].existed /\ limit[p] >= 1) =>
          /\ ret'[p] = [allowed |-> TRUE, err |-> "nil"]
          /\ rateLimits'[key[p]].Count = 1
          /\ rateLimits'[key[p]].LastReset \in obs[p].tGet..clock
          /\ IsZero(rateLimits'[key[p]].BlockedAt)]_vars

\* The first call of a key has returned true at the initial clock, leaving
\* count=1, windowStart=now, blockedAt absent.
C2_Witness ==
    \E p \in Procs :
        /\ pc[p] = "returned" /\ ret[p] = [allowed |-> TRUE, err |-> "nil"]
        /\ clock = 1
        /\ win[key[p]] = [calls |-> 1, admitted |-> 1]
        /\ rateLimits[key[p]] = [Count |-> 1, LastReset |-> 1, BlockedAt |-> ZeroTime]

\* C3 as stated: a denial leaves blockedAt present, and a call that runs
\* wholly within blockDurationSeconds of blockedAt is denied with count unchanged.
C3_BlockedStaysDenied ==
    [][\A p \in Procs : Returns(p) =>
          /\ ~ret'[p].allowed => ~IsZero(rateLimits'[key[p]].BlockedAt)
          /\ ( /\ obs[p].existed
               /\ ~IsZero(obs[p].before.BlockedAt)
               /\ clock - obs[p].before.BlockedAt < blockTime[p] * TicksPerSecond )
             => /\ ~ret'[p].allowed
                /\ rateLimits'[key[p]].Count = obs[p].before.Count]_vars

\* C3 amended: a denial leaves blockedAt present, and a call made within
\* blockDurationSeconds of blockedAt whose window check finds the window not
\* expired (less than 1 second since windowStart) is denied with count unchanged.
C3_BlockedStaysDeniedInWindow ==
    [][\A p \in Procs : Returns(p) =>
          /\ ~ret'[p].allowed => ~IsZero(rateLimits'[key[p]].BlockedAt)
          /\ ( /\ obs[p].existed
               /\ ~IsZero(obs[p].before.BlockedAt)
               /\ obs[p].tGet - obs[p].before.BlockedAt < blockTime[p] * TicksPerSecond
               /\ ~DidReset(p) )
             => /\ ~ret'[p].allowed
                /\ rateLimits'[key[p]].Count = obs[p].before.Count]_vars

\* A second denial in one window, while the block of the first is running.
C3_Witness ==
    \E p \in Procs :
        /\ pc[p] = "returned" /\ ~ret[p].allowed
        /\ win[key[p]].calls - win[key[p]].admitted >= 2
        /\ ~IsZero(rateLimits[key[p]].BlockedAt)
        /\ clock - rateLimits[key[p]].BlockedAt < KeyBlockTime(key[p]) * TicksPerSecond

\* C4 as stated: a call for a blocked key made at least 1 second after
\* windowStart returns allowed=true.
C4_ResetOverridesBlock ==
    [][\A p \in Procs :
          ( /\ Returns(p)
            /\ obs[p].existed
            /\ ~IsZero(obs[p].before.BlockedAt)
            /\ obs[p].tGet - obs[p].before.LastReset >= WindowSeconds * TicksPerSecond )
          => ret'[p].allowed]_vars

\* C4 amended: the same, for a key whose resolved limit is at least 1.
C4_ResetOverridesBlockPositiveLimit ==
    [][\A p \in Procs :
          ( /\ Returns(p)
            /\ obs[p].existed
            /\ ~IsZero(obs[p].before.BlockedAt)
            /\ obs[p].tGet - obs[p].before.LastReset >= WindowSeconds * TicksPerSecond
            /\ limit[p] >= 1 )
          => ret'[p].allowed]_vars

\* A call for a key that was blocked, made 1 second after windowStart while
\* the block duration has not elapsed, has passed every check and is about to
\* return true.
C4_Witness ==
    \E p \in Procs :
        /\ pc[p] = "incr"
        /\ obs[p].existed
        /\ ~IsZero(obs[p].before.BlockedAt)
        /\ obs[p].tGet - obs[p].before.LastReset >= WindowSeconds * TicksPerSecond
        /\ clock - obs[p].before.BlockedAt < blockTime[p] * TicksPerSecond

\* C5: under every interleaving the stored count of a key equals the number
\* of calls admitted in its window, and while the calls of the window are no
\* more than the limit every one of them was admitted: no increment is lost.
C5_NoLostIncrement ==
    \A k \in DOMAIN rateLimits :
        /\ rateLimits[k].Count = win[k].admitted
        /\ win[k].calls <= KeyLimit(k) => win[k].admitted = win[k].calls

\* Two goroutines call for the same key with limit >= 2: one has been admitted
\* and the other is in the middle of its increment.
C5_Witness ==
    \E p, q \in Procs :
        /\ p # q /\ key[p] = key[q]
        /\ pc[p] = "returned" /\ ret[p].allowed
        /\ pc[q] = "incr"
        /\ KeyLimit(key[p]) >= 2
        /\ win[key[p]].calls = 1

\* C6: the body of CheckRateLimit runs only under the mutex, and every call
\* returns the decision and leaves the records that the same call, run alone
\* after the calls completed before it, returns and leaves.
C6_Serializable ==
    [][/\ \A p \in Procs : InBody(p) => mutex = p
       /\ \A p \in Procs : Returns(p) =>
            /\ ret'[p].allowed =
                 CheckRateLimitSeq(serial, config, key[p], isToken[p],
                     obs[p].tGet, obs[p].tReset,
                     IF pc[p] = "blocked" THEN clock ELSE obs[p].tBlock,
                     clock).allowed
            /\ rateLimits' = serial']_vars

\* A goroutine waits for the mutex while another, on the same key, has
\* changed the record and not yet returned.
C6_Witness ==
    \E p, q \in Procs :
        /\ p # q /\ key[p] = key[q]
        /\ pc[q] = "lock"
        /\ InBody(p) /\ mutex = p
        /\ key[p] \in DOMAIN serial
        /\ rateLimits[key[p]] # serial[key[p]]

\* The token name a key carries after the "token:" prefix.
TokenOf(k) == SubSeq(k, Len(TokenPrefix) + 1, Len(k))
HasTokenPrefix(k) ==
    Len(k) >= Len(TokenPrefix) /\ SubSeq(k, 1, Len(TokenPrefix)) = TokenPrefix
HasColon(t) == \E i \in 1..Len(t) : t[i] = Colon

\* The set of goroutine p succeeds in this step.
SetDone(p) == pc[p] = "rset" /\ pc'[p] = "returned" /\ ret'[p].err = "nil"

\* C7: the external sequence is not atomic, the last set wins: a call that
\* completes its set leaves in the store exactly the record it computed from
\* what its own get read, whatever other calls have written since that get, and
\* returns the decision it made then.
C7_LastSetWins ==
    [][\A p \in Procs : SetDone(p) =>
          /\ key[p] \in DOMAIN store'
          /\ Unmarshal(store'[key[p]].data) = loc[p].rl
          /\ loc[p].rl = ExternalCheck(obs[p].before, config, key[p], isToken[p],
                                       obs[p].tGet).rl
          /\ ret'[p].allowed = loc[p].allowed]_vars

\* Three calls for one key whose limit is 2 have all been admitted in one
\* instant, two of them having read the same count, and the stored count is 2.
C7_Witness ==
    \E k \in DOMAIN store :
        /\ clock = 1
        /\ KeyLimit(k) = 2
        /\ win[k] = [calls |-> 3, admitted |-> 3]
        /\ Unmarshal(store[k].data).Count = 2
        /\ \A p \in Procs : ~InCall(p)

\* C8: a call one of whose storage round trips failed (timed out) has
\* returned allowed=false together with that error, and no call has returned
\* allowed=true with a non-nil error.
C8_FailClosed ==
    \A p \in Procs : pc[p] = "returned" =>
        /\ ret[p].allowed => ret[p].err = "nil"
        /\ cli[p].get = "timeout" =>
             ret[p] = [allowed |-> FALSE, err |-> GetError(cli[p].get)]
        /\ cli[p].set = "timeout" =>
             ret[p] = [allowed |-> FALSE, err |-> SetError(cli[p].set)]

\* One call has been denied by a failed get and another, for a key with no
\* record and a limit of at least 1, by a set that timed out.
C8_Witness ==
    \E p, q \in Procs :
        /\ pc[p] = "returned" /\ pc[q] = "returned"
        /\ cli[p].get = "timeout"
        /\ ret[p] = [allowed |-> FALSE, err |-> GetError("timeout")]
        /\ cli[q] = [get |-> "ok", set |-> "timeout"]
        /\ ret[q] = [allowed |-> FALSE, err |-> SetError("timeout")]
        /\ win[key[q]] = [calls |-> 2, admitted |-> 0]
        /\ KeyLimit(key[q]) >= 1
        /\ key[q] \notin DOMAIN store

\* C9 as stated: for a token key token:<T>, a configured T gets its override's
\* limit and block time and an unconfigured T the IP defaults; a key that is
\* not a token key gets the IP defaults whatever its text.
C9_PolicyResolution ==
    pc[1] = "resolved" =>
        LET t == TokenOf(key[1])
        IN  /\ (isToken[1] /\ HasTokenPrefix(key[1])) =>
                /\ limit[1] = IF t \in DOMAIN config.TokenLimits
                              THEN config.TokenLimits[t] ELSE config.IPRateLimit
                /\ blockTime[1] = IF t \in DOMAIN config.TokenBlockTimes
                                  THEN config.TokenBlockTimes[t] ELSE config.IPBlockTime
            /\ ~isToken[1] =>
                /\ limit[1] = config.IPRateLimit
                /\ blockTime[1] = config.IPBlockTime

\* C9 amended: the same, the override applying only to a T that holds no ":";
\* a token key whose T holds a ":" gets the IP defaults.
C9_PolicyResolutionNoColon ==
    pc[1] = "resolved" =>
        LET t == TokenOf(key[1])
        IN  /\ (isToken[1] /\ HasTokenPrefix(key[1])) =>
                /\ limit[1] = IF ~HasColon(t) /\ t \in DOMAIN config.TokenLimits
                              THEN config.TokenLimits[t] ELSE config.IPRateLimit
                /\ blockTime[1] = IF ~HasColon(t) /\ t \in DOMAIN config.TokenBlockTimes
                                  THEN config.TokenBlockTimes[t] ELSE config.IPBlockTime
            /\ ~isToken[1] =>
                /\ limit[1] = config.IPRateLimit
                /\ blockTime[1] = config.IPBlockTime

\* The key of a configured token has been resolved as a token key to an
\* override limit and block time that both differ from the IP defaults.
C9_Witness ==
    /\ pc[1] = "resolved" /\ isToken[1]
    /\ key[1] = TokenPrefix \o TokA
    /\ TokA \in DOMAIN config.TokenLimits \cap DOMAIN config.TokenBlockTimes
    /\ limit[1] = config.TokenLimits[TokA] /\ limit[1] # config.IPRateLimit
    /\ blockTime[1] = config.TokenBlockTimes[TokA]
    /\ blockTime[1] # config.IPBlockTime

\* The body is the JSON object {"error": <message>}.
IsErrorJSON(body) ==
    /\ Len(body) = 6
    /\ <<body[1], body[2], body[3], body[5]>> = <<"{", "error", ":", "}">>
    /\ body[4] # ""

\* C11: the handler calls next exactly once if CheckRateLimit returned
\* (true, nil) and never otherwise; after (false, nil) it has answered 429
\* with a JSON body {"error": <message>} and has not called next.
C11_NextIffAllowed ==
    \A p \in Procs :
        /\ pc[p] # "served" => resp[p].next = 0
        /\ pc[p] = "served" =>
             /\ resp[p].next = IF ret[p] = [allowed |-> TRUE, err |-> "nil"] THEN 1 ELSE 0
             /\ ret[p] = [allowed |-> FALSE, err |-> "nil"] =>
                  /\ resp[p].status = StatusTooManyRequests
                  /\ resp[p].contentType = "application/json"
                  /\ IsErrorJSON(resp[p].body)

\* One request has been passed to next after (true, nil), another has been
\* answered 429 after (false, nil).
C11_Witness ==
    \E p, q \in Procs :
        /\ pc[p] = "served" /\ ret[p] = [allowed |-> TRUE, err |-> "nil"]
        /\ resp[p] = [NoResponse EXCEPT !.next = 1]
        /\ pc[q] = "served" /\ ret[q] = [allowed |-> FALSE, err |-> "nil"]
        /\ resp[q].status = StatusTooManyRequests /\ resp[q].next = 0

\* C12: after CheckRateLimit returned an error the handler has answered 500,
\* not 429, and has not called next, whatever the boolean.
C12_ErrorIs500 ==
    \A p \in Procs : (pc[p] = "served" /\ ret[p].err # "nil") =>
        /\ resp[p].status = StatusInternalServerError
        /\ resp[p].status # StatusTooManyRequests
        /\ resp[p].next = 0

\* Errors returned with true and with false have both been answered 500.
C12_Witness ==
    \E p, q \in Procs :
        /\ pc[p] = "served" /\ ret[p].err # "nil" /\ ret[p].allowed
        /\ pc[q] = "served" /\ ret[q].err # "nil" /\ ~ret[q].allowed
        /\ resp[p].status = StatusInternalServerError
        /\ resp[q].status = StatusInternalServerError

\* C13: a request with a non-empty API key is identified by "token:" + apiKey
\* with isToken true, a key that is not the client IP's; a request without
\* one is identified by the client IP with isToken false.
C13_IdentityMapping ==
    pc[1] = "identified" =>
        IF req.apiKey # EmptyString
        THEN /\ key[1] = TokenPrefix \o req.apiKey
             /\ isToken[1]
             /\ key[1] # clientAddr
        ELSE /\ key[1] = clientAddr
             /\ ~isToken[1]

\* A request carrying both a valid forwarded address and an API key has been
\* given the token key.
C13_Witness ==
    /\ pc[1] = "identified"
    /\ req.apiKey = TokA
    /\ isValidIP(clientAddr)
    /\ key[1] = TokenPrefix \o TokA /\ isToken[1]

\* The texts the environment gives the variable: none when it is not set.
EnvTexts(name) ==
    {TrimPrefix(env[i], name \o <<"=">>) :
        i \in {j \in 1..Len(env) : HasPrefix(env[j], name \o <<"=">>)}}

\* The text is a decimal number: digits, after an optional sign.
IsNumeric(t) ==
    LET d == IF t # EmptyString /\ t[1] \in {"+", "-"} THEN Tail(t) ELSE t
    IN  d # EmptyString /\ \A i \in 1..Len(d) : IsDigit(d[i])

\* C14: LoadConfig returns no error; IP_RATE_LIMIT not set or not numeric
\* gives limit 10, IP_BLOCK_TIME not set or not numeric gives block time 300,
\* SERVER_PORT not set gives "8080", and a TOKEN_<name>_LIMIT or
\* TOKEN_<name>_BLOCK_TIME whose text is not numeric leaves <name> without an
\* entry in its map.
C14_LoadConfigDefaults ==
    pc[1] = "loaded" =>
        /\ loaded.err = "nil"
        /\ (\A t \in EnvTexts(EnvIPRateLimit) : ~IsNumeric(t)) =>
               loaded.cfg.IPRateLimit = 10
        /\ (\A t \in EnvTexts(EnvIPBlockTime) : ~IsNumeric(t)) =>
               loaded.cfg.IPBlockTime = 300
        /\ EnvTexts(EnvServerPort) = {} =>
               loaded.cfg.ServerPort = <<"8", "0", "8", "0">>
        /\ \A name \in TokenNames :
             /\ (\E t \in EnvTexts(TokenEnvPrefix \o name \o LimitSuffix) : ~IsNumeric(t))
                  => name \notin DOMAIN loaded.cfg.TokenLimits
             /\ (\E t \in EnvTexts(TokenEnvPrefix \o name \o BlockTimeSuffix) : ~IsNumeric(t))
                  => name \notin DOMAIN loaded.cfg.TokenBlockTimes

\* A configuration has been loaded with IP_RATE_LIMIT not numeric,
\* IP_BLOCK_TIME and SERVER_PORT not set, TOKEN_A_LIMIT not numeric and
\* TOKEN_A_BLOCK_TIME numeric: the defaults, and an override of the block time
\* only.
C14_Witness ==
    /\ pc[1] = "loaded"
    /\ \E t \in EnvTexts(EnvIPRateLimit) : t # EmptyString /\ ~IsNumeric(t)
    /\ EnvTexts(EnvIPBlockTime) = {} /\ EnvTexts(EnvServerPort) = {}
    /\ \E t \in EnvTexts(TokenEnvPrefix \o TokA \o LimitSuffix) : ~IsNumeric(t)
    /\ \E t \in EnvTexts(TokenEnvPrefix \o TokA \o BlockTimeSuffix) : IsNumeric(t)
    /\ loaded.cfg.IPRateLimit = 10 /\ loaded.cfg.IPBlockTime = 300
    /\ loaded.cfg.TokenLimits = <<>>
    /\ DOMAIN loaded.cfg.TokenBlockTimes = {TokA}

\* The host of an address "host:port" or "[host]:port"; the address itself
\* when it is not of these forms.
HostPart(a) ==
    LET colons == {i \in 1..Len(a) : a[i] = Colon}
    IN  IF a # EmptyString /\ a[1] # "[" /\ Cardinality(colons) = 1
        THEN SubSeq(a, 1, (CHOOSE i \in colons : TRUE) - 1)
        ELSE IF \E e \in 3..(Len(a) - 1) :
                    a[1] = "[" /\ a[e] = "]" /\ a[e + 1] = Colon
                    /\ \A i \in colons : i <= e + 1
        THEN SubSeq(a, 2, (CHOOSE e \in 3..(Len(a) - 1) :
                               a[e] = "]" /\ a[e + 1] = Colon) - 1)
        ELSE a

\* The first comma-separated entry of X-Forwarded-For, spaces trimmed.
FirstForwarded(r) == TrimSpace(Head(Split(r.xff, ",")))

\* C15: the client address is the first X-Forwarded-For entry if it is a
\* valid IP, else X-Real-IP if valid, else CF-Connecting-IP if valid, else the
\* host part of RemoteAddr; an invalid header value is never the result.
C15_ClientIPPrecedence ==
    pc[1] = "identified" =>
        /\ clientAddr =
             IF isValidIP(FirstForwarded(req)) THEN FirstForwarded(req)
             ELSE IF isValidIP(req.xri) THEN req.xri
             ELSE IF isValidIP(req.cf) THEN req.cf
             ELSE HostPart(req.remoteAddr)
        /\ \A v \in {FirstForwarded(req), req.xri, req.cf} :
               (v # EmptyString /\ ~isValidIP(v)) => clientAddr # v

\* All three headers are present and invalid, and the address is the host of
\* a RemoteAddr that has a port.
C15_Witness ==
    /\ pc[1] = "identified"
    /\ \A v \in {FirstForwarded(req), req.xri, req.cf} :
           v # EmptyString /\ ~isValidIP(v)
    /\ SplitHostPort(req.remoteAddr).err = "nil"
    /\ clientAddr = SplitHostPort(req.remoteAddr).host
    /\ clientAddr # req.remoteAddr

\* C16: the reset comes first: a call whose window check finds 1 second or
\* more since windowStart, for a limit above 0, is admitted and leaves
\* count=1, windowStart = the time of that check, blockedAt absent, whatever
\* the record held before.
C16_ResetFirst ==
    [][\A p \in Procs : (Returns(p) /\ DidReset(p) /\ limit[p] > 0) =>
          /\ ret'[p].allowed
          /\ rateLimits'[key[p]] =
               [Count |-> 1, LastReset |-> obs[p].tReset, BlockedAt |-> ZeroTime]]_vars

\* A call has found a record with a count and a running block in an expired
\* window, has reset it, and has passed the block and capacity checks.
C16_Witness ==
    \E p \in Procs :
        /\ pc[p] = "incr" /\ cnt[p] = 0
        /\ obs[p].existed /\ DidReset(p)
        /\ obs[p].before.Count >= 1
        /\ ~IsZero(obs[p].before.BlockedAt)
        /\ obs[p].tReset - obs[p].before.BlockedAt < blockTime[p] * TicksPerSecond
        /\ rateLimits[key[p]] =
             [Count |-> 0, LastReset |-> obs[p].tReset, BlockedAt |-> ZeroTime]

\* C17: a call whose block check finds blockedAt present and less than
\* blockDurationSeconds old, the window not having been reset, returns false
\* at that check and leaves the record as it found it: count, windowStart and
\* blockedAt unchanged.
C17_BlockedLeavesRecord ==
    [][\A p \in Procs :
          ( /\ pc[p] = "blocked" /\ pc'[p] # "blocked"
            /\ ~DidReset(p)
            /\ ~IsZero(obs[p].before.BlockedAt)
            /\ clock - obs[p].before.BlockedAt < blockTime[p] * TicksPerSecond )
          => /\ pc'[p] = "returned"
             /\ ret'[p] = [allowed |-> FALSE, err |-> "nil"]
             /\ rateLimits'[key[p]] = obs[p].before]_vars

\* A call has been denied some time after the block began, in the same
\* window, and blockedAt is still the earlier time.
C17_Witness ==
    \E p \in Procs :
        /\ pc[p] = "returned" /\ ~ret[p].allowed
        /\ win[key[p]].calls - win[key[p]].admitted >= 2
        /\ ~IsZero(rateLimits[key[p]].BlockedAt)
        /\ rateLimits[key[p]].BlockedAt < clock
        /\ clock - rateLimits[key[p]].BlockedAt < KeyBlockTime(key[p]) * TicksPerSecond
        /\ clock - rateLimits[key[p]].LastReset < WindowSeconds * TicksPerSecond

\* C18: the capacity check of a record with count >= limit sets blockedAt
\* to the time of the check, keeps count and windowStart, and returns false;
\* with count < limit the call adds exactly 1 to count, keeps windowStart and
\* blockedAt, and returns true.
C18_CapacityCheck ==
    [][\A p \in Procs :
          LET rl == rateLimits[key[p]]
          IN  /\ (pc[p] = "capacity" /\ pc'[p] # "capacity") =>
                   IF rl.Count >= limit[p]
                   THEN /\ pc'[p] = "returned"
                        /\ ret'[p] = [allowed |-> FALSE, err |-> "nil"]
                        /\ rateLimits'[key[p]] = [rl EXCEPT !.BlockedAt = clock]
                   ELSE /\ pc'[p] = "incr"
                        /\ rateLimits' = rateLimits
              /\ (pc[p] = "incr" /\ pc'[p] # "incr") =>
                   /\ pc'[p] = "returned"
                   /\ ret'[p] = [allowed |-> TRUE, err |-> "nil"]
                   /\ rateLimits'[key[p]] = [rl EXCEPT !.Count = rl.Count + 1]]_vars

\* One call has been admitted by the capacity check, for one key, and
\* another denied by it, for a key whose count had reached its limit of 1 or
\* more.
C18_Witness ==
    \E p, q \in Procs :
        /\ pc[p] = "returned" /\ ret[p].allowed
        /\ rateLimits[key[p]].Count = win[key[p]].admitted
        /\ IsZero(rateLimits[key[p]].BlockedAt)
        /\ pc[q] = "returned" /\ ~ret[q].allowed
        /\ win[key[q]].calls = win[key[q]].admitted + 1
        /\ rateLimits[key[q]].Count = KeyLimit(key[q])
        /\ KeyLimit(key[q]) >= 1
        /\ ~IsZero(rateLimits[key[q]].BlockedAt)

C20_RecordsOnlyGrow ==
    [][/\ DOMAIN rateLimits \subseteq DOMAIN rateLimits'
       /\ \A k \in DOMAIN rateLimits' \ DOMAIN rateLimits :
             \E p \in Procs :
                 /\ pc[p] = "get" /\ pc'[p] = "reset"
                 /\ key[p] = k
                 /\ k \notin DOMAIN win
                 /\ rateLimits'[k] = NewRateLimit(clock)]_vars

\* Two keys have records, no call is in progress, and the window of one of
\* the records has run out: the record is still there.
C20_Witness ==
    /\ \A p \in Procs : ~InCall(p)
    /\ \E k1, k2 \in DOMAIN rateLimits :
          /\ k1 # k2
          /\ clock - rateLimits[k1].LastReset >= WindowSeconds * TicksPerSecond

\* C21: with the external backend a set stores the record with the key's
\* resolved block duration as its expiration, so a key that receives no
\* further calls eventually has no record in the store, for every configured
\* block duration, 0 included.
C21_IdleKeysReclaimed ==
    \A ip \in ClientIPs : <>[](ip \notin DOMAIN store)

\* As C21, for the keys whose resolved block duration is positive.
C21_IdleKeysReclaimedPositive ==
    \A ip \in ClientIPs :
        getBlockTime(config, ip, FALSE) > 0 => <>[](ip \notin DOMAIN store)

\* A call has written the record of its key, whose block duration is
\* positive, and has returned; no call is in progress and the store has no
\* record of the key any more.
C21_Witness ==
    \E p \in Procs :
        /\ pc[p] = "returned"
        /\ cli[p].set = "ok"
        /\ getBlockTime(config, key[p], isToken[p]) > 0
        /\ key[p] \notin DOMAIN store
        /\ \A q \in Procs : ~InCall(q)

\* C22: with the external backend a get that the server answers never ends
\* the call with an error, whether the key has a record or not; and when the
\* key has none (never written, or expired) the engine decides as for the
\* first call of a new key: from count 0, windowStart now and no blockedAt,
\* so the call is admitted with count 1 if the limit is positive, and denied
\* with count 0 and blockedAt now otherwise.
C22_AbsentIsNew ==
    \A p \in Procs :
        /\ (pc[p] = "returned" /\ cli[p].get = "ok") => cli[p].set # "none"
        /\ (pc[p] = "rset" /\ ~obs[p].existed) =>
              LET now == obs[p].tGet
                  lim == getLimit(config, key[p], isToken[p])
              IN  /\ cli[p].get = "ok"
                  /\ loc[p].allowed = (lim > 0)
                  /\ loc[p].rl = [Count |-> IF lim > 0 THEN 1 ELSE 0,
                                  LastReset |-> now,
                                  BlockedAt |-> IF lim > 0 THEN ZeroTime ELSE now]

\* A call has written the record of a key and returned; the record has
\* expired, and a later call for the key has just got no record and is to
\* be admitted.
C22_Witness ==
    \E p, q \in Procs :
        /\ pc[q] = "returned" /\ cli[q].set = "ok" /\ key[q] = key[p]
        /\ pc[p] = "rset" /\ ~obs[p].existed /\ obs[p].tGet = clock
        /\ key[p] \notin DOMAIN store
        /\ loc[p].allowed

\* How many ":" a key holds.
Colons(k) == Cardinality({i \in 1..Len(k) : k[i] = Colon})

\* C23: a token key that does not split on ":" into exactly two segments
\* (such as token:a:b, from an API key that holds a ":") matches no token
\* override: it gets the IP default limit and block time, even if that very
\* token value is configured; the resolution returns values, never an error.
C23_UnsplittableTokenKey ==
    (pc[1] = "resolved" /\ isToken[1] /\ Colons(key[1]) # 1) =>
        /\ limit[1] = config.IPRateLimit
        /\ blockTime[1] = config.IPBlockTime

\* The key token:a:b has been resolved as a token key to the IP defaults,
\* while a:b is configured with a limit and a block time that both differ
\* from them.
C23_Witness ==
    /\ pc[1] = "resolved" /\ isToken[1]
    /\ key[1] = TokenPrefix \o TokAB
    /\ TokAB \in DOMAIN config.TokenLimits \cap DOMAIN config.TokenBlockTimes
    /\ config.TokenLimits[TokAB] # config.IPRateLimit
    /\ config.TokenBlockTimes[TokAB] # config.IPBlockTime
    /\ limit[1] = config.IPRateLimit
    /\ blockTime[1] = config.IPBlockTime

\* C24: a record set under a key and got back before its expiration, with
\* no set in between, is there and equals the record set in count,
\* windowStart and blockedAt; a blockedAt that was absent is read back absent.
C24_RoundTrip ==
    (pc[1] = "fetched" /\ cli[1] = [get |-> "ok", set |-> "ok"]) =>
        LET r == loc[1].rl
            got == obs[1].before
            expiresAt == obs[1].tGet + blockTime[1] * TicksPerSecond
        IN  /\ (blockTime[1] = 0 \/ clock < expiresAt) => obs[1].existed
            /\ obs[1].existed =>
                  /\ got.Count = r.Count
                  /\ got.LastReset = r.LastReset
                  /\ got.BlockedAt = r.BlockedAt
                  /\ IsZero(r.BlockedAt) => IsZero(got.BlockedAt)

\* A record with a count, a window start off the whole second and no
\* blockedAt was set with an expiration, and was got back half a second
\* later.
C24_Witness ==
    /\ pc[1] = "fetched" /\ cli[1] = [get |-> "ok", set |-> "ok"]
    /\ blockTime[1] > 0
    /\ clock > obs[1].tGet
    /\ obs[1].existed
    /\ loc[1].rl.Count > 0
    /\ loc[1].rl.LastReset % TicksPerSecond # 0
    /\ IsZero(loc[1].rl.BlockedAt)
    /\ obs[1].before = loc[1].rl

\* The larger of two integers.
Max(a, b) == IF a >= b THEN a ELSE b

\* C25: every in-memory record has 0 <= count <= max(limit, 0) for the
\* resolved limit of its key, and in the running window of a key at most
\* max(limit, 0) calls have been admitted, under every interleaving.
C25_CountWithinLimit ==
    \A k \in DOMAIN rateLimits :
        /\ 0 <= rateLimits[k].Count
        /\ rateLimits[k].Count <= Max(KeyLimit(k), 0)
        /\ win[k].admitted <= Max(KeyLimit(k), 0)

\* Both goroutines have called for the same key, whose limit is 2: the
\* count has reached the limit, both admitted calls are counted, and a third
\* call has been denied.
C25_Witness ==
    \E k \in DOMAIN rateLimits :
        /\ KeyLimit(k) = MaxLimit
        /\ rateLimits[k].Count = MaxLimit
        /\ win[k] = [calls |-> MaxLimit + 1, admitted |-> MaxLimit]
        /\ \A p \in Procs : pc[p] = "returned" /\ key[p] = k

\* C26: the decisions do not depend on the block durations: of two
\* in-memory engines that differ only in their block durations and are given
\* the same calls at the same times, each call gets the same allowed value
\* from both, and their records agree in count and windowStart.
C26_BlockTimeIrrelevant ==
    /\ \A p \in Procs : ret[p] = ret[1]
    /\ DOMAIN rateLimits = DOMAIN serial
    /\ \A k \in DOMAIN rateLimits :
          /\ rateLimits[k].Count = serial[k].Count
          /\ rateLimits[k].LastReset = serial[k].LastReset

\* A call has been denied by both engines, whose block durations for its
\* key differ: one denied it at the block check and kept blockedAt, the
\* other at the capacity check and stamped blockedAt anew.
C26_Witness ==
    /\ \A p \in Procs : pc[p] = "returned" /\ ~ret[p].allowed
    /\ blockTime[1] # blockTime[2]
    /\ limit[1] >= 1
    /\ ~IsZero(rateLimits[key[1]].BlockedAt)
    /\ ~IsZero(serial[key[1]].BlockedAt)
    /\ rateLimits[key[1]].BlockedAt # serial[key[1]].BlockedAt

\* C27: in every in-memory record, blockedAt present implies count >= limit
\* and blockedAt >= windowStart; and a record whose window holds at most the
\* one call that opened it (by creating the record or by resetting it) has
\* no blockedAt unless the limit is 0 or less.
C27_BlockedMeansFull ==
    \A k \in DOMAIN rateLimits :
        LET rl == rateLimits[k]
        IN  /\ ~IsZero(rl.BlockedAt) =>
                 /\ rl.Count >= KeyLimit(k)
                 /\ rl.BlockedAt >= rl.LastReset
            /\ (win[k].calls <= 1 /\ KeyLimit(k) > 0) => IsZero(rl.BlockedAt)

\* The window of one record holds the one call that opened it, after the
\* initial clock: count 1, no blockedAt. The record of another key is
\* blocked, at its limit, later than its window start.
C27_Witness ==
    \E k1, k2 \in DOMAIN rateLimits :
        /\ \A p \in Procs : ~InCall(p)
        /\ rateLimits[k1].LastReset > 1
        /\ win[k1].calls = 1
        /\ rateLimits[k1] =
             [Count |-> 1, LastReset |-> rateLimits[k1].LastReset, BlockedAt |-> ZeroTime]
        /\ ~IsZero(rateLimits[k2].BlockedAt)
        /\ KeyLimit(k2) >= 1
        /\ rateLimits[k2].Count = KeyLimit(k2)
        /\ rateLimits[k2].BlockedAt > rateLimits[k2].LastReset

\* C28: when the resolved limit of a key is 0 or negative, no call for the
\* key is admitted: every call returns allowed=false, the first call and the
\* calls after a window reset included, and the count stays 0.
C28_NonPositiveLimitDeniesAll ==
    /\ \A p \in Procs :
          (pc[p] = "returned" /\ KeyLimit(key[p]) <= 0) =>
              ret[p] = [allowed |-> FALSE, err |-> "nil"]
    /\ \A k \in DOMAIN rateLimits :
          KeyLimit(k) <= 0 => rateLimits[k].Count = 0 /\ win[k].admitted = 0

\* The key has a negative limit; the calls of its first window were denied,
\* its window has been reset by a later call, and that call, the first of
\* the new window, has been denied too.
C28_Witness ==
    \E p \in Procs :
        /\ pc[p] = "returned" /\ ~ret[p].allowed
        /\ KeyLimit(key[p]) < 0
        /\ rateLimits[key[p]].LastReset > 1
        /\ key[p] \in DOMAIN serial
        /\ win[key[p]] = [calls |-> 1, admitted |-> 0]
        /\ rateLimits[key[p]].Count = 0
        /\ rateLimits[key[p]].BlockedAt >= rateLimits[key[p]].LastReset

\* C29: limit and block time are resolved each from its own override map: a
\* token with a limit override only gets its own limit and the IP default
\* block time, and a token with a block-time override only gets the IP
\* default limit and its own block time.
C29_IndependentOverrides ==
    (pc[1] = "resolved" /\ isToken[1]) =>
        \A t \in TokenNames :
            (key[1] = TokenPrefix \o t /\ ~HasColon(t)) =>
                /\ (t \in DOMAIN config.TokenLimits \ DOMAIN config.TokenBlockTimes) =>
                      /\ limit[1] = config.TokenLimits[t]
                      /\ blockTime[1] = config.IPBlockTime
                /\ (t \in DOMAIN config.TokenBlockTimes \ DOMAIN config.TokenLimits) =>
                      /\ limit[1] = config.IPRateLimit
                      /\ blockTime[1] = config.TokenBlockTimes[t]

\* The token A has a block-time override, unlike the IP default, and no
\* limit override: its key has been resolved to the IP default limit and its
\* own block time.
C29_Witness ==
    /\ pc[1] = "resolved" /\ isToken[1]
    /\ key[1] = TokenPrefix \o TokA
    /\ TokA \in DOMAIN config.TokenBlockTimes \ DOMAIN config.TokenLimits
    /\ config.TokenBlockTimes[TokA] # config.IPBlockTime
    /\ limit[1] = config.IPRateLimit
    /\ blockTime[1] = config.TokenBlockTimes[TokA]

\* C30: every call of CheckRateLimit returns with the mutex released, on
\* each of its return paths; while calls are in progress one of them can take
\* a step; and under fair scheduling every caller gets its decision.
C30_EveryCallReturns ==
    /\ [](\A p \in Procs : mutex = p <=> InBody(p))
    /\ []((\E p \in Procs : InCall(p)) => \E p \in Procs : ENABLED Step(p))
    /\ \A p \in Procs :
           (pc[p] = "lock") ~> (pc[p] = "returned" /\ ret[p] # NoRet /\ mutex # p)

\* Three calls on one key at one instant have returned by the three paths:
\* the first admitted, the second over capacity, the third blocked; the mutex
\* is free and no call is in progress.
C30_Witness ==
    /\ IP1 \in DOMAIN win
    /\ win[IP1] = [calls |-> 3, admitted |-> 1]
    /\ IP1 \in DOMAIN rateLimits
    /\ rateLimits[IP1].LastReset = clock
    /\ rateLimits[IP1].BlockedAt = clock
    /\ ~IsZero(rateLimits[IP1].BlockedAt)
    /\ getBlockTime(config, IP1, FALSE) > 0
    /\ mutex = NoProc
    /\ \A p \in Procs : ~InCall(p)

\* C31: the in-memory CheckRateLimit returns a nil error on every path, so
\* every request the handler answers over it is either passed to the next
\* handler or answered 429, never 500.
C31_NeverInternalError ==
    \A p \in Procs :
        /\ pc[p] = "returned" => ret[p].err = "nil"
        /\ resp[p].status # StatusInternalServerError
        /\ \/ resp[p] = NoResponse
           \/ resp[p] = [NoResponse EXCEPT !.next = 1]
           \/ resp[p] = sendRateLimitError

\* One request has been passed to the next handler and another has been
\* answered 429, both decided by the in-memory engine.
C31_Witness ==
    \E p, q \in Procs :
        /\ pc[p] = "idle" /\ pc[q] = "idle"
        /\ resp[p] = [NoResponse EXCEPT !.next = 1]
        /\ resp[q] = sendRateLimitError
        /\ \E k \in DOMAIN win : win[k].calls > win[k].admitted

\* C10: a record changes or appears only in a step of the call that holds
\* the mutex for that record's key, and the decision of a call is the one it
\* gets from its own key's record alone.
C10_KeyIsolation ==
    [][/\ \A k \in DOMAIN rateLimits' :
            (k \notin DOMAIN rateLimits \/ rateLimits'[k] # rateLimits[k])
            => \E p \in Procs : InBody(p) /\ key[p] = k
       /\ \A p \in Procs : Returns(p) =>
            ret'[p].allowed =
              CheckRateLimitSeq([kk \in DOMAIN serial \cap {key[p]} |-> serial[kk]],
                  config, key[p], isToken[p], obs[p].tGet, obs[p].tReset,
                  IF pc[p] = "blocked" THEN clock ELSE obs[p].tBlock,
                  clock).allowed]_vars

\* A call is admitted while the record of another key is exhausted and blocked
\* in its running window.
C10_Witness ==
    \E p \in Procs : \E k \in DOMAIN rateLimits :
        /\ pc[p] = "returned" /\ ret[p].allowed
        /\ k # key[p]
        /\ ~IsZero(rateLimits[k].BlockedAt)
        /\ rateLimits[k].Count >= 1
        /\ clock - rateLimits[k].LastReset < WindowSeconds * TicksPerSecond

====
